---- MODULE Spec2Model ----
(***************************************************************************)
(* Model of the oju-api backend (FastAPI + SQLAlchemy): the credential     *)
(* store, registration and login, the JWT access gate of app/api/deps.py   *)
(* and the resource handlers that sit behind it.                           *)
(*                                                                         *)
(* One action is one HTTP request handled to its response, except          *)
(* registration, which is two steps (the get_user_by_email check, then     *)
(* create_user's commit) so that requests of different workers can         *)
(* interleave between them.                                                *)
(***************************************************************************)
EXTENDS Integers, Sequences, FiniteSets, TLC

(***************************************************************************)
(* Bounds of the model.                                                    *)
(***************************************************************************)
MaxUsers == 2          \* rows the users table may hold
MaxTime == 40          \* the clock runs from 0 to MaxTime (minutes)
TickMinutes == 20      \* the clock advances in steps of TickMinutes
MaxTokens == 1         \* tokens the clients hold at one time
MaxInFlight == 2       \* register requests between their check and their commit
MaxTestimonials == 1   \* testimonials ever created
MaxPrograms == 1       \* ids the programs sequence ever hands out
MaxFiles == 1          \* image files stored at one time

(***************************************************************************)
(* Inputs.  RegisterRequest.email is a plain str (auth.py:21), so a        *)
(* request may carry a string that is no e-mail address at all.            *)
(***************************************************************************)
Emails == {"a@x.com", "A@x.com", "not-an-email"}
Passwords == {"pw1", "pw2"}
Names == {"Ana"}
UserTypes == {"member"}

\* The hasher draws a random salt on every call; the model gives the n-th row of
\* the users table the n-th salt, so that no two digests share a salt.
SaltOf(n) == "s" \o ToString(n)
Salts == {SaltOf(n) : n \in 1..(MaxUsers + 1)}

(***************************************************************************)
(* Settings (app/core/config.py): the values the process starts with when  *)
(* the environment sets none of them.                                      *)
(***************************************************************************)
SECRET_KEY == "your-secret-key-here-change-this-in-production"
ALGORITHM == "HS256"
ACCESS_TOKEN_EXPIRE_MINUTES == 30

VARIABLES
    users,          \* the users table: rows in insertion order, id = position
    inflight,       \* register requests that passed the e-mail check, not yet committed
    tokens,         \* access tokens issued by login and still held by a client
    now,            \* the clock, in minutes
    testimonials,   \* the testimonials table
    nextTestimonialId,
    programs,       \* the programs table
    nextProgramId,  \* the next value of the programs id sequence
    files,          \* the files under static/images/programs
    members,        \* the members table
    events,         \* the events table
    nextEventId,    \* the next value of the events id sequence
    sessions,       \* per worker: the request it is handling and its database session
    last            \* the request handled by the latest step, with its response

vars ==
    <<users, inflight, tokens, now, testimonials, nextTestimonialId,
      programs, nextProgramId, files, members, events, nextEventId, sessions, last>>
store == <<users, testimonials, nextTestimonialId>>

(***************************************************************************)
(* Values.                                                                 *)
(***************************************************************************)
Timestamp == "timestamptz"   \* a column value set by the server's now()
Null == "NULL"

\* Python's None / False for "no such user" (authenticate_user returns False,
\* get_user_by_email returns None; both are falsy and the callers only test that).
NoUser ==
    [id |-> 0, email |-> "", name |-> "", hashed_password |-> "", userType |-> "",
     is_active |-> FALSE, is_superuser |-> FALSE, created_at |-> Null, updated_at |-> Null]

\* payload.get("sub") of a token that carries no subject.
NoSub == "None"

\* The Authorization header of a request: absent, a string that is no JWT, or a JWT.
NoToken == [kind |-> "absent", sub |-> "", exp |-> 0, key |-> "", alg |-> ""]
Garbage == [kind |-> "garbage", sub |-> "", exp |-> 0, key |-> "", alg |-> ""]
\* A JWT made by somebody who does not know SECRET_KEY.
Forged == [kind |-> "jwt", sub |-> "a@x.com", exp |-> MaxTime + TickMinutes,
           key |-> "attacker-key", alg |-> ALGORITHM]

\* The JWTs such a party can make, with any subject and expiry: signed with a key
\* of its own, or not signed at all (alg "none").
Forgeries ==
    {[kind |-> "jwt", sub |-> sub, exp |-> exp, key |-> signing[1], alg |-> signing[2]] :
        sub \in Emails, exp \in {0, MaxTime + TickMinutes},
        signing \in {<<"attacker-key", ALGORITHM>>, <<"", "none">>}}

\* What a client can put in the Authorization header.
Presentable == tokens \cup {NoToken, Garbage, Forged}
Bearers == tokens \cup {NoToken}

\* A worker that handles no request.
NoSession ==
    [state |-> "idle", sid |-> 0, op |-> "none", token |-> NoToken, id |-> 0,
     outcome |-> "none", closes |-> 0, row |-> "NULL"]

HTTPException(status_code, detail, headers) ==
    [status |-> status_code, detail |-> detail, headers |-> headers]

NoError == HTTPException(0, "", "")

\* An exception no handler catches: Starlette's ServerErrorMiddleware answers 500.
InternalServerError == HTTPException(500, "Internal Server Error", "")

NoBody == [access_token |-> NoToken, users |-> <<>>, message |-> "", records |-> <<>>]

NoArg == [email |-> "", password |-> "", is_active |-> FALSE, is_superuser |-> FALSE, id |-> 0]

Idle ==
    [op |-> "none", token |-> NoToken, arg |-> NoArg,
     status |-> 0, detail |-> "", headers |-> "", body |-> NoBody]

Response(op, token, arg, status, body) ==
    [op |-> op, token |-> token, arg |-> arg,
     status |-> status, detail |-> "", headers |-> "", body |-> body]

Failure(op, token, arg, exc) ==
    [op |-> op, token |-> token, arg |-> arg,
     status |-> exc.status, detail |-> exc.detail, headers |-> exc.headers, body |-> NoBody]

(***************************************************************************)
(* Password hasher and token issuer (app/core/security.py).                *)
(***************************************************************************)
\* A salted one-way digest: the salt is drawn anew by every call.
get_password_hash(password, salt) == "$2b$" \o salt \o "$" \o password

\* True iff the digest was produced from this plaintext; false (never an
\* exception) for a string that is no digest.
verify_password(plain_password, hashed_password) ==
    \E salt \in Salts : hashed_password = get_password_hash(plain_password, salt)

\* A signed token binding the subject to the expiry instant t + expires_delta.
create_access_token(sub, expires_delta, t) ==
    [kind |-> "jwt", sub |-> sub, exp |-> t + expires_delta,
     key |-> SECRET_KEY, alg |-> ALGORITHM]

(***************************************************************************)
(* app/services/auth_service.py                                            *)
(***************************************************************************)
\* db.query(User).filter(User.email == email).first(): exact string equality.
get_user_by_email(db, email) ==
    LET hits == {i \in 1..Len(db) : db[i].email = email}
    IN  IF hits = {} THEN NoUser
        ELSE db[CHOOSE i \in hits : \A j \in hits : i <= j]

\* authenticate_user without the password check.
authenticate_user_nopw(db, email, password) == get_user_by_email(db, email)

authenticate_user(db, email, password) ==
    LET user == get_user_by_email(db, email)
    IN  IF user = NoUser THEN NoUser
        ELSE IF ~verify_password(password, user.hashed_password) THEN NoUser
        ELSE user

\* db.query(User).offset(skip).limit(limit).all() with the default skip and limit.
get_users(db) == db

(***************************************************************************)
(* Request bodies.                                                         *)
(***************************************************************************)
\* RegisterRequest (auth.py): userType, is_active and is_superuser are fields of
\* the request body, with defaults "member", True and False.
RegisterRequests ==
    [email : Emails, password : Passwords, name : Names, userType : UserTypes,
     is_active : BOOLEAN, is_superuser : BOOLEAN]

\* The JSON bodies of POST /register: email, password and name are required;
\* userType, is_active and is_superuser may each be left out.
BodyUserTypes == {"member", "admin"}

WithField(body, field, value) ==
    [f \in DOMAIN body \cup {field} |-> IF f = field THEN value ELSE body[f]]

Optional(bodies, field, values) ==
    bodies \cup {WithField(body, field, value) : body \in bodies, value \in values}

RegisterBodies ==
    Optional(Optional(Optional(
        [email : {"a@x.com", "A@x.com"}, password : {"pw1"}, name : Names],
        "userType", BodyUserTypes), "is_active", BOOLEAN), "is_superuser", BOOLEAN)

\* A RegisterRequest whose is_active defaults to False.
RegisterRequest_inactive(body) ==
    [email |-> body.email,
     password |-> body.password,
     name |-> body.name,
     userType |-> IF "userType" \in DOMAIN body THEN body.userType ELSE "member",
     is_active |-> IF "is_active" \in DOMAIN body THEN body.is_active ELSE FALSE,
     is_superuser |-> IF "is_superuser" \in DOMAIN body THEN body.is_superuser ELSE FALSE]

\* pydantic builds the RegisterRequest from the body: a field the body leaves out
\* takes the default the class declares ("member", True, False).
RegisterRequest(body) ==
    [email |-> body.email,
     password |-> body.password,
     name |-> body.name,
     userType |-> IF "userType" \in DOMAIN body THEN body.userType ELSE "member",
     is_active |-> IF "is_active" \in DOMAIN body THEN body.is_active ELSE TRUE,
     is_superuser |-> IF "is_superuser" \in DOMAIN body THEN body.is_superuser ELSE FALSE]

\* UserCreate (schemas/user.py): an EmailStr and a password, nothing else.
UserCreates == [email : {"a@x.com", "A@x.com"}, password : Passwords]

\* No request in the slot.
NoRequest ==
    [email |-> "", password |-> "", name |-> "", userType |-> "",
     is_active |-> FALSE, is_superuser |-> FALSE]

ArgOf(user_data) ==
    [email |-> user_data.email, password |-> user_data.password,
     is_active |-> user_data.is_active, is_superuser |-> user_data.is_superuser, id |-> 0]

ArgCredentials(email, password) ==
    [email |-> email, password |-> password, is_active |-> FALSE, is_superuser |-> FALSE, id |-> 0]

ArgId(id) ==
    [email |-> "", password |-> "", is_active |-> FALSE, is_superuser |-> FALSE, id |-> id]

(***************************************************************************)
(* schemas/user.py: the response model User.                               *)
(***************************************************************************)
\* pydantic's EmailStr accepts a string only if it is an e-mail address.
EmailStr(email) == email \in {"a@x.com", "A@x.com"}

\* A response model that declares the digest too.
UserSchema_withhash(row) ==
    [id |-> row.id, email |-> row.email, name |-> row.name, userType |-> row.userType,
     is_active |-> row.is_active, is_superuser |-> row.is_superuser,
     created_at |-> row.created_at, updated_at |-> row.updated_at,
     hashed_password |-> row.hashed_password]

\* The fields the response model User declares, read from the row's attributes
\* (from_attributes = True).
UserSchema(row) ==
    [id |-> row.id, email |-> row.email, name |-> row.name, userType |-> row.userType,
     is_active |-> row.is_active, is_superuser |-> row.is_superuser,
     created_at |-> row.created_at, updated_at |-> row.updated_at]

\* FastAPI validates what the handler returns against response_model; a row whose
\* email is no EmailStr fails the validation and the request ends in a 500.
UserValid(row) == EmailStr(row.email)

(***************************************************************************)
(* auth_service.create_user and the store's commit.                        *)
(***************************************************************************)
\* The attributes create_user reads from user_data.
CreateUserReads == {"email", "password", "name", "userType", "is_active", "is_superuser"}

\* The row with the password as it came.
create_user_plaintext(db, user_data) ==
    [id |-> Len(db) + 1,
     email |-> user_data.email,
     name |-> user_data.name,
     hashed_password |-> user_data.password,
     userType |-> user_data.userType,
     is_active |-> user_data.is_active,
     is_superuser |-> user_data.is_superuser,
     created_at |-> Timestamp,
     updated_at |-> Null]

\* The row create_user builds: the password goes through the hasher.  The id and
\* the timestamps are set by the store on insert.
create_user(db, user_data) ==
    [id |-> Len(db) + 1,
     email |-> user_data.email,
     name |-> user_data.name,
     hashed_password |-> get_password_hash(user_data.password, SaltOf(Len(db) + 1)),
     userType |-> user_data.userType,
     is_active |-> user_data.is_active,
     is_superuser |-> user_data.is_superuser,
     created_at |-> Timestamp,
     updated_at |-> Null]

\* A users table without the unique index.
commit_user_ok_nounique(db, row) == TRUE

\* db.add(row); db.commit(): the users table has a unique index on email, so the
\* insert of a second row with the same email is refused (IntegrityError).
commit_user_ok(db, row) == \A i \in 1..Len(db) : db[i].email # row.email

(***************************************************************************)
(* app/api/deps.py: the access gate.                                       *)
(***************************************************************************)
Pass(user) == [ok |-> TRUE, user |-> user, error |-> NoError]
Reject(exc) == [ok |-> FALSE, user |-> NoUser, error |-> exc]

\* OAuth2PasswordBearer: no "Authorization: Bearer ..." header ends the request.
not_authenticated == HTTPException(401, "Not authenticated", "Bearer")

credentials_exception == HTTPException(401, "Could not validate credentials", "Bearer")

\* jwt.decode with options={"verify_signature": False}: only the claims are read.
jwt_decode_nosig(token, key, alg, t) ==
    IF  /\ token.kind = "jwt"
        /\ t < token.exp
    THEN [ok |-> TRUE, sub |-> token.sub]
    ELSE [ok |-> FALSE, sub |-> ""]

\* jwt.decode with options={"verify_exp": False}.
jwt_decode_noexp(token, key, alg, t) ==
    IF  /\ token.kind = "jwt"
        /\ token.key = key
        /\ token.alg = alg
    THEN [ok |-> TRUE, sub |-> token.sub]
    ELSE [ok |-> FALSE, sub |-> ""]

\* jwt.decode(token, key, algorithms=[alg]) at time t: the signature is checked
\* with the key and the algorithm, then the exp claim against the clock (a token
\* is expired from the instant exp on).  Any failure is a PyJWTError.
jwt_decode(token, key, alg, t) ==
    IF  /\ token.kind = "jwt"
        /\ token.key = key
        /\ token.alg = alg
        /\ t < token.exp
    THEN [ok |-> TRUE, sub |-> token.sub]
    ELSE [ok |-> FALSE, sub |-> ""]

get_current_user(db, token, t) ==
    IF token.kind = "absent" THEN Reject(not_authenticated)
    ELSE LET payload == jwt_decode(token, SECRET_KEY, ALGORITHM, t)
         IN  IF ~payload.ok THEN Reject(credentials_exception)
             ELSE IF payload.sub = NoSub THEN Reject(credentials_exception)
             ELSE LET user == get_user_by_email(db, payload.sub)
                  IN  IF user = NoUser THEN Reject(credentials_exception)
                      ELSE Pass(user)

get_current_active_user(db, token, t) ==
    LET current_user == get_current_user(db, token, t)
    IN  IF ~current_user.ok THEN current_user
        ELSE IF ~current_user.user.is_active
             THEN Reject(HTTPException(400, "Inactive user", ""))
        ELSE current_user

\* The gate without its role test.
get_current_active_superuser_norole(db, token, t) == get_current_user(db, token, t)

get_current_active_superuser(db, token, t) ==
    LET current_user == get_current_user(db, token, t)
    IN  IF ~current_user.ok THEN current_user
        ELSE IF ~current_user.user.is_superuser
             THEN Reject(HTTPException(400, "The user doesn't have enough privileges", ""))
        ELSE current_user

get_admin_user(db, token, t) == get_current_active_superuser(db, token, t)

(***************************************************************************)
(* The state after start-up: empty tables, no request in progress.         *)
(***************************************************************************)
Init ==
    /\ users = <<>>
    /\ inflight = [w \in 1..MaxInFlight |-> NoRequest]
    /\ tokens = {}
    /\ now = 0
    /\ testimonials = <<>>
    /\ nextTestimonialId = 1
    /\ programs = <<>>
    /\ nextProgramId = 1
    /\ files = {}
    /\ members = <<>>
    /\ events = <<>>
    /\ nextEventId = 1
    /\ sessions = [w \in 1..MaxInFlight |-> NoSession]
    /\ last = Idle

\* Time passes.
Tick ==
    /\ now + TickMinutes <= MaxTime
    /\ now' = now + TickMinutes
    /\ last' = Idle
    /\ UNCHANGED <<users, inflight, tokens, testimonials, nextTestimonialId, programs, nextProgramId, files,
                   members, events, nextEventId, sessions>>

\* A client throws its token away (logout is client-side only).
Discard(token) ==
    /\ token \in tokens
    /\ tokens' = tokens \ {token}
    /\ last' = Idle
    /\ UNCHANGED <<users, inflight, now, testimonials, nextTestimonialId, programs, nextProgramId, files,
                   members, events, nextEventId, sessions>>

(***************************************************************************)
(* app/api/v1/auth.py                                                      *)
(***************************************************************************)
email_registered == HTTPException(400, "Email already registered", "")

\* A create that leaves the new row alone in the table.
register_create_replacing(db, user_data) ==
    LET user == create_user(db, user_data)
    IN  [users |-> <<[user EXCEPT !.id = 1]>>,
         response |-> Response("register", NoToken, ArgOf(user_data), 200,
                               [NoBody EXCEPT !.users = <<UserSchema(user)>>])]

\* user = create_user(db, user_data); return user: the insert and its commit, then
\* the response through response_model=User.
register_create(db, user_data) ==
    LET user == create_user(db, user_data)
        arg == ArgOf(user_data)
    IN  IF ~commit_user_ok(db, user)
        THEN [users |-> db,
              response |-> Failure("register", NoToken, arg, InternalServerError)]
        ELSE [users |-> Append(db, user),
              response |->
                  IF UserValid(user)
                  THEN Response("register", NoToken, arg, 200,
                                [NoBody EXCEPT !.users = <<UserSchema(user)>>])
                  ELSE Failure("register", NoToken, arg, InternalServerError)]

\* The whole handler, run without another request in between.
register(db, user_data) ==
    IF get_user_by_email(db, user_data.email) # NoUser
    THEN [users |-> db,
          response |-> Failure("register", NoToken, ArgOf(user_data), email_registered)]
    ELSE register_create(db, user_data)

Register(user_data) ==
    LET result == register(users, user_data)
    IN  /\ Len(result.users) <= MaxUsers
        /\ users' = result.users
        /\ last' = result.response
        /\ UNCHANGED <<inflight, tokens, now, testimonials, nextTestimonialId, programs, nextProgramId, files,
                   members, events, nextEventId, sessions>>

\* POST /register with this JSON body.
RegisterJson(body) == Register(RegisterRequest(body))

\* register in two steps, for requests that overlap.  First the check of
\* get_user_by_email; worker w handles the request.
RegisterCheck(w, user_data) ==
    /\ inflight[w] = NoRequest
    /\ IF get_user_by_email(users, user_data.email) # NoUser
       THEN /\ last' = Failure("register", NoToken, ArgOf(user_data), email_registered)
            /\ UNCHANGED inflight
       ELSE /\ Len(users) + Cardinality({v \in 1..MaxInFlight : inflight[v] # NoRequest})
                 < MaxUsers
            /\ inflight' = [inflight EXCEPT ![w] = user_data]
            /\ last' = Response("register_check", NoToken, ArgOf(user_data), 0, NoBody)
    /\ UNCHANGED <<users, tokens, now, testimonials, nextTestimonialId, programs, nextProgramId, files,
                   members, events, nextEventId, sessions>>

\* Then create_user and the response.
RegisterCommit(w) ==
    /\ inflight[w] # NoRequest
    /\ LET result == register_create(users, inflight[w])
       IN  /\ users' = result.users
           /\ last' = result.response
    /\ inflight' = [inflight EXCEPT ![w] = NoRequest]
    /\ UNCHANGED <<tokens, now, testimonials, nextTestimonialId, programs, nextProgramId, files,
                   members, events, nextEventId, sessions>>

\* The second step when db.commit() raises for a reason of the store's own (the
\* connection is lost, the disk is full): create_user and register catch nothing,
\* the exception reaches the boundary, and get_db closes the session, which
\* discards the row that was added.
RegisterCommitFault(w) ==
    /\ inflight[w] # NoRequest
    /\ last' = Failure("register", NoToken, ArgOf(inflight[w]), InternalServerError)
    /\ inflight' = [inflight EXCEPT ![w] = NoRequest]
    /\ UNCHANGED <<users, tokens, now, testimonials, nextTestimonialId,
                   programs, nextProgramId, files,
                   members, events, nextEventId, sessions>>

incorrect_email_or_password == HTTPException(401, "Incorrect email or password", "Bearer")

\* A login that tells an unknown email from a wrong password.
login_leaky(db, email, password, t) ==
    LET user == authenticate_user(db, email, password)
        arg == ArgCredentials(email, password)
    IN  IF get_user_by_email(db, email) = NoUser
        THEN Failure("login", NoToken, arg, HTTPException(401, "Unknown email", "Bearer"))
        ELSE IF user = NoUser
        THEN Failure("login", NoToken, arg, incorrect_email_or_password)
        ELSE LET access_token ==
                     create_access_token(user.email, ACCESS_TOKEN_EXPIRE_MINUTES, t)
             IN  IF UserValid(user)
                 THEN Response("login", NoToken, arg, 200,
                               [access_token |-> access_token,
                                users |-> <<UserSchema(user)>>,
                                message |-> "bearer"])
                 ELSE Failure("login", NoToken, arg, InternalServerError)

\* login: the response for the credentials presented at time t.
login(db, email, password, t) ==
    LET user == authenticate_user(db, email, password)
        arg == ArgCredentials(email, password)
    IN  IF user = NoUser
        THEN Failure("login", NoToken, arg, incorrect_email_or_password)
        ELSE LET access_token ==
                     create_access_token(user.email, ACCESS_TOKEN_EXPIRE_MINUTES, t)
             IN  IF UserValid(user)
                 THEN Response("login", NoToken, arg, 200,
                               [access_token |-> access_token,
                                users |-> <<UserSchema(user)>>,
                                message |-> "bearer"])
                 ELSE Failure("login", NoToken, arg, InternalServerError)

Login(email, password) ==
    LET response == login(users, email, password, now)
    IN  /\ last' = response
        /\ IF response.status = 200
           THEN /\ tokens' = tokens \cup {response.body.access_token}
                /\ Cardinality(tokens') <= MaxTokens
           ELSE UNCHANGED tokens
        /\ UNCHANGED <<users, inflight, now, testimonials, nextTestimonialId, programs, nextProgramId, files,
                   members, events, nextEventId, sessions>>

(***************************************************************************)
(* app/api/v1/users.py                                                     *)
(***************************************************************************)
\* GET /users: every row through response_model=List[User].
read_users(db, token, t) ==
    LET current_user == get_current_active_user(db, token, t)
        rows == get_users(db)
    IN  IF ~current_user.ok
        THEN Failure("read_users", token, NoArg, current_user.error)
        ELSE IF \A i \in 1..Len(rows) : UserValid(rows[i])
        THEN Response("read_users", token, NoArg, 200,
                      [NoBody EXCEPT !.users = [i \in 1..Len(rows) |-> UserSchema(rows[i])]])
        ELSE Failure("read_users", token, NoArg, InternalServerError)

\* GET /users behind a gate that stamps the row of the user it resolved.
ReadUsers_stamping(token) ==
    /\ last' = read_users(users, token, now)
    /\ users' = [i \in 1..Len(users) |->
                    IF get_current_user(users, token, now).user = users[i]
                    THEN [users[i] EXCEPT !.updated_at = Timestamp]
                    ELSE users[i]]
    /\ UNCHANGED <<inflight, tokens, now, testimonials, nextTestimonialId, programs, nextProgramId, files,
                   members, events, nextEventId, sessions>>

ReadUsers(token) ==
    /\ last' = read_users(users, token, now)
    /\ UNCHANGED <<users, inflight, tokens, now, testimonials, nextTestimonialId, programs, nextProgramId, files,
                   members, events, nextEventId, sessions>>

username_exists ==
    HTTPException(400, "The user with this username already exists in the system.", "")

\* POST /users: create_user reads name, userType, is_active and is_superuser from
\* user_in; a body that lacks one of them raises AttributeError before the insert.
create_new_user(db, token, user_in, t) ==
    LET current_user == get_current_active_user(db, token, t)
        arg == ArgCredentials(user_in.email, user_in.password)
    IN  IF ~current_user.ok
        THEN [users |-> db,
              response |-> Failure("create_new_user", token, arg, current_user.error)]
        ELSE IF get_user_by_email(db, user_in.email) # NoUser
        THEN [users |-> db,
              response |-> Failure("create_new_user", token, arg, username_exists)]
        ELSE IF ~(CreateUserReads \subseteq DOMAIN user_in)
        THEN [users |-> db,
              response |-> Failure("create_new_user", token, arg, InternalServerError)]
        ELSE LET created == register_create(db, user_in)
             IN  [users |-> created.users,
                  response |-> [created.response EXCEPT
                                    !.op = "create_new_user", !.token = token]]

CreateNewUser(token, user_in) ==
    LET result == create_new_user(users, token, user_in, now)
    IN  /\ Len(result.users) <= MaxUsers
        /\ users' = result.users
        /\ last' = result.response
        /\ UNCHANGED <<inflight, tokens, now, testimonials, nextTestimonialId, programs, nextProgramId, files,
                   members, events, nextEventId, sessions>>

(***************************************************************************)
(* app/api/v1/testimonials.py                                              *)
(***************************************************************************)
testimonial_not_found == HTTPException(404, "Testimonial not found", "")

\* db.query(Testimonial).filter(Testimonial.id == testimonial_id).first()
HasTestimonial(table, id) == \E i \in 1..Len(table) : table[i].id = id

\* The row with this id (ids are unique: the primary key).
Row(table, id) == table[CHOOSE i \in 1..Len(table) : table[i].id = id]

\* Python's None: the value of a field the request did not set.
None == "None"

\* The status column is assigned and the row committed; updated_at has
\* onupdate=func.now(), so the store stamps it when the UPDATE changes the row.
SetStatus(table, id, status) ==
    [i \in 1..Len(table) |->
        IF table[i].id = id /\ table[i].status # status
        THEN [table[i] EXCEPT !.status = status, !.updated_at = Timestamp]
        ELSE table[i]]

\* update_data = body.dict(exclude_unset=True): the value the body set for the
\* field, or the row's own value when the body did not set it.
Supplied(update_data, field, old) ==
    IF field \in update_data.fields_set THEN update_data[field] ELSE old

\* TestimonialCreate, as far as the model follows it: name and content.
TestimonialCreates == [name : {"Ana"}, content : {"good"}]

\* The JSON bodies of PUT /testimonials/{id}: any of name, content and status
\* may be present; fields_set holds the keys that are.
TestimonialJsons ==
    {[fields_set |-> keys,
      name |-> IF "name" \in keys THEN "Bea" ELSE None,
      content |-> IF "content" \in keys THEN "great" ELSE None,
      status |-> IF "status" \in keys THEN "approved" ELSE None] :
        keys \in SUBSET {"name", "content", "status"}}

\* A TestimonialUpdate that declares status as well.
TestimonialUpdate_withstatus(json) ==
    [fields_set |-> json.fields_set,
     name |-> json.name, content |-> json.content, status |-> json.status]

\* pydantic builds the TestimonialUpdate from the body: the class declares name,
\* content, rating and image_url, and a key it does not declare is ignored.
TestimonialUpdate(json) ==
    [fields_set |-> json.fields_set \cap {"name", "content", "rating", "image_url"},
     name |-> json.name, content |-> json.content]

\* for field, value in update_data.items(): setattr(testimonial, field, value);
\* db.commit().
UpdatedTestimonial(row, update_data) ==
    LET new == [id |-> row.id,
                name |-> Supplied(update_data, "name", row.name),
                content |-> Supplied(update_data, "content", row.content),
                status |-> Supplied(update_data, "status", row.status),
                updated_at |-> row.updated_at]
    IN  IF new = row THEN row ELSE [new EXCEPT !.updated_at = Timestamp]

Remove(table, id) == SelectSeq(table, LAMBDA row : row.id # id)

Message(op, token, id, message) ==
    Response(op, token, ArgId(id), 200, [NoBody EXCEPT !.message = message])

\* POST /testimonials: any resolved user; the status column defaults to PENDING.
create_testimonial(db, table, token, testimonial, id, t) ==
    LET current_user == get_current_user(db, token, t)
    IN  IF ~current_user.ok
        THEN [testimonials |-> table,
              response |-> Failure("create_testimonial", token, NoArg, current_user.error)]
        ELSE [testimonials |->
                  Append(table, [id |-> id, name |-> testimonial.name,
                                 content |-> testimonial.content,
                                 status |-> "pending", updated_at |-> Null]),
              response |-> Response("create_testimonial", token, ArgId(id), 200, NoBody)]

CreateTestimonial(token, testimonial) ==
    LET result == create_testimonial(users, testimonials, token, testimonial,
                                     nextTestimonialId, now)
    IN  /\ Len(result.testimonials) <= MaxTestimonials
        /\ testimonials' = result.testimonials
        /\ nextTestimonialId' =
               IF result.response.status = 200 THEN nextTestimonialId + 1
               ELSE nextTestimonialId
        /\ nextTestimonialId' <= MaxTestimonials + 1
        /\ last' = result.response
        /\ UNCHANGED <<users, inflight, tokens, now, programs, nextProgramId, files,
                   members, events, nextEventId, sessions>>

\* GET /testimonials/{id}
get_testimonial(db, table, token, id, t) ==
    LET current_user == get_current_user(db, token, t)
    IN  IF ~current_user.ok
        THEN Failure("get_testimonial", token, ArgId(id), current_user.error)
        ELSE IF ~HasTestimonial(table, id)
        THEN Failure("get_testimonial", token, ArgId(id), testimonial_not_found)
        ELSE Message("get_testimonial", token, id, Row(table, id).content)

\* PUT /testimonials/{id}: any resolved user.
update_testimonial(db, table, token, id, testimonial_update, t) ==
    LET current_user == get_current_user(db, token, t)
    IN  IF ~current_user.ok
        THEN [testimonials |-> table,
              response |-> Failure("update_testimonial", token, ArgId(id), current_user.error)]
        ELSE IF ~HasTestimonial(table, id)
        THEN [testimonials |-> table,
              response |-> Failure("update_testimonial", token, ArgId(id),
                                   testimonial_not_found)]
        ELSE [testimonials |->
                  [i \in 1..Len(table) |->
                      IF table[i].id = id
                      THEN UpdatedTestimonial(table[i], testimonial_update)
                      ELSE table[i]],
              response |-> Response("update_testimonial", token, ArgId(id), 200, NoBody)]

\* PUT /testimonials/{id}/feature: "testimonial.is_featured = not
\* testimonial.is_featured" reads an attribute; on a row that has none the read
\* raises AttributeError, which no handler catches.
toggle_feature_testimonial(db, table, token, id, t) ==
    LET current_user == get_admin_user(db, token, t)
        op == "toggle_feature_testimonial"
    IN  IF ~current_user.ok
        THEN [testimonials |-> table,
              response |-> Failure(op, token, ArgId(id), current_user.error)]
        ELSE IF ~HasTestimonial(table, id)
        THEN [testimonials |-> table,
              response |-> Failure(op, token, ArgId(id), testimonial_not_found)]
        ELSE IF "is_featured" \notin DOMAIN Row(table, id)
        THEN [testimonials |-> table,
              response |-> Failure(op, token, ArgId(id), InternalServerError)]
        ELSE [testimonials |->
                  [i \in 1..Len(table) |->
                      IF table[i].id = id
                      THEN [table[i] EXCEPT !.is_featured = ~@, !.updated_at = Timestamp]
                      ELSE table[i]],
              response |->
                  Message(op, token, id,
                          IF ~Row(table, id).is_featured
                          THEN "Testimonial featured successfully"
                          ELSE "Testimonial unfeatured successfully")]

GetTestimonial(token, id) ==
    /\ last' = get_testimonial(users, testimonials, token, id, now)
    /\ UNCHANGED <<users, inflight, tokens, now, testimonials, nextTestimonialId,
                   programs, nextProgramId, files,
                   members, events, nextEventId, sessions>>

UpdateTestimonial(token, id, json) ==
    LET result == update_testimonial(users, testimonials, token, id,
                                     TestimonialUpdate(json), now)
    IN  /\ testimonials' = result.testimonials
        /\ last' = result.response
        /\ UNCHANGED <<users, inflight, tokens, now, nextTestimonialId,
                       programs, nextProgramId, files,
                       members, events, nextEventId, sessions>>

ToggleFeatureTestimonial(token, id) ==
    LET result == toggle_feature_testimonial(users, testimonials, token, id, now)
    IN  /\ testimonials' = result.testimonials
        /\ last' = result.response
        /\ UNCHANGED <<users, inflight, tokens, now, nextTestimonialId,
                       programs, nextProgramId, files,
                       members, events, nextEventId, sessions>>

\* The three handlers below share their shape: the admin gate, the lookup of the
\* row (404 when there is none), the change, the commit and a message.
admin_change(op, db, table, token, id, t, changed, message) ==
    LET current_user == get_admin_user(db, token, t)
    IN  IF ~current_user.ok
        THEN [testimonials |-> table,
              response |-> Failure(op, token, ArgId(id), current_user.error)]
        ELSE IF ~HasTestimonial(table, id)
        THEN [testimonials |-> table,
              response |-> Failure(op, token, ArgId(id), testimonial_not_found)]
        ELSE [testimonials |-> changed,
              response |-> Message(op, token, id, message)]

\* PUT /testimonials/{id}/approve
approve_testimonial(db, table, token, id, t) ==
    admin_change("approve_testimonial", db, table, token, id, t,
                 SetStatus(table, id, "approved"), "Testimonial approved successfully")

\* PUT /testimonials/{id}/reject
reject_testimonial(db, table, token, id, t) ==
    admin_change("reject_testimonial", db, table, token, id, t,
                 SetStatus(table, id, "rejected"), "Testimonial rejected")

\* The row deleted before the gate has spoken.
delete_testimonial_ungated(db, table, token, id, t) ==
    [testimonials |-> Remove(table, id),
     response |-> admin_change("delete_testimonial", db, table, token, id, t,
                               Remove(table, id),
                               "Testimonial deleted successfully").response]

\* DELETE /testimonials/{id}
delete_testimonial(db, table, token, id, t) ==
    admin_change("delete_testimonial", db, table, token, id, t,
                 Remove(table, id), "Testimonial deleted successfully")

ApproveTestimonial(token, id) ==
    LET result == approve_testimonial(users, testimonials, token, id, now)
    IN  /\ testimonials' = result.testimonials
        /\ last' = result.response
        /\ UNCHANGED <<users, inflight, tokens, now, nextTestimonialId, programs, nextProgramId, files,
                   members, events, nextEventId, sessions>>

RejectTestimonial(token, id) ==
    LET result == reject_testimonial(users, testimonials, token, id, now)
    IN  /\ testimonials' = result.testimonials
        /\ last' = result.response
        /\ UNCHANGED <<users, inflight, tokens, now, nextTestimonialId, programs, nextProgramId, files,
                   members, events, nextEventId, sessions>>

DeleteTestimonial(token, id) ==
    LET result == delete_testimonial(users, testimonials, token, id, now)
    IN  /\ testimonials' = result.testimonials
        /\ last' = result.response
        /\ UNCHANGED <<users, inflight, tokens, now, nextTestimonialId, programs, nextProgramId, files,
                   members, events, nextEventId, sessions>>

(***************************************************************************)
(* app/api/v1/programs.py.  A row is its id, title, status and updated_at;  *)
(* the other columns are copied from the request like title is.  `fault`   *)
(* is the store's answer to db.commit(): TRUE when the commit raises.      *)
(***************************************************************************)
ProgramStatuses == {"active", "inactive"}
ProgramIds == 1..(MaxPrograms + 1)

\* ProgramCreate, as far as the model follows it: title and status.
ProgramCreates == [title : {"Chess"}, status : ProgramStatuses]

\* The JSON bodies of PUT /programs/{id}: either of title and status may be
\* present; fields_set holds the keys that are.
ProgramJsons ==
    {[fields_set |-> keys,
      title |-> IF "title" \in keys THEN "Go" ELSE None,
      status |-> IF "status" \in keys THEN "inactive" ELSE None] :
        keys \in SUBSET {"title", "status"}}

\* pydantic builds the ProgramUpdate from the body; the class declares title,
\* description, categories, program_type, status and image_url.
ProgramUpdate(json) ==
    [fields_set |-> json.fields_set \cap {"title", "description", "categories",
                                          "program_type", "status", "image_url"},
     title |-> json.title, status |-> json.status]

\* Program(**program_data.dict()): the row as the insert leaves it.
NewProgram(id, program_data) ==
    [id |-> id, title |-> program_data.title, status |-> program_data.status,
     updated_at |-> Null]

\* An update that writes every column the schema declares, the unset ones as
\* None.
UpdatedProgram_full(row, update_data) ==
    [id |-> row.id, title |-> update_data.title, status |-> update_data.status,
     updated_at |-> Timestamp]

\* for field, value in update_data.items(): setattr(program, field, value);
\* db.commit().  updated_at has onupdate=func.now().
UpdatedProgram(row, update_data) ==
    LET new == [id |-> row.id,
                title |-> Supplied(update_data, "title", row.title),
                status |-> Supplied(update_data, "status", row.status),
                updated_at |-> row.updated_at]
    IN  IF new = row THEN row ELSE [new EXCEPT !.updated_at = Timestamp]

\* db.query(Program).filter(Program.id == program_id).first()
HasProgram(table, id) == \E i \in 1..Len(table) : table[i].id = id

program_not_found == HTTPException(404, "Program not found", "")
error_creating_program == HTTPException(500, "Error creating program", "")
error_updating_program == HTTPException(500, "Error updating program", "")
error_deleting_program == HTTPException(500, "Error deleting program", "")

\* A handler that commits once more when the commit has raised.
create_program_retrying(db, table, token, program_data, id, t, fault) ==
    LET current_user == get_current_user(db, token, t)
    IN  IF ~current_user.ok
        THEN [programs |-> table,
              response |-> Failure("create_program", token, NoArg, current_user.error)]
        ELSE [programs |-> Append(table, NewProgram(id, program_data)),
              response |-> Response("create_program", token, ArgId(id), 200, NoBody)]

\* POST /programs: db.add, db.commit; any exception is answered by db.rollback()
\* and a 500.
create_program(db, table, token, program_data, id, t, fault) ==
    LET current_user == get_current_user(db, token, t)
    IN  IF ~current_user.ok
        THEN [programs |-> table,
              response |-> Failure("create_program", token, NoArg, current_user.error)]
        ELSE IF fault
        THEN [programs |-> table,
              response |-> Failure("create_program", token, NoArg, error_creating_program)]
        ELSE [programs |-> Append(table, NewProgram(id, program_data)),
              response |-> Response("create_program", token, ArgId(id), 200, NoBody)]

\* PUT /programs/{id}: the 404 is re-raised as it is; any other exception is
\* answered by db.rollback() and a 500.
update_program(db, table, token, id, program_data, t, fault) ==
    LET current_user == get_current_user(db, token, t)
    IN  IF ~current_user.ok
        THEN [programs |-> table,
              response |-> Failure("update_program", token, ArgId(id), current_user.error)]
        ELSE IF ~HasProgram(table, id)
        THEN [programs |-> table,
              response |-> Failure("update_program", token, ArgId(id), program_not_found)]
        ELSE IF fault
        THEN [programs |-> table,
              response |-> Failure("update_program", token, ArgId(id), error_updating_program)]
        ELSE [programs |->
                  [i \in 1..Len(table) |->
                      IF table[i].id = id
                      THEN UpdatedProgram(table[i], program_data)
                      ELSE table[i]],
              response |-> Response("update_program", token, ArgId(id), 200, NoBody)]

\* GET /programs/{id}: outside any try block.
get_program(db, table, token, id, t) ==
    LET current_user == get_current_user(db, token, t)
    IN  IF ~current_user.ok
        THEN Failure("get_program", token, ArgId(id), current_user.error)
        ELSE IF ~HasProgram(table, id)
        THEN Failure("get_program", token, ArgId(id), program_not_found)
        ELSE Message("get_program", token, id, Row(table, id).title)

\* DELETE /programs/{id}
delete_program(db, table, token, id, t, fault) ==
    LET current_user == get_current_user(db, token, t)
    IN  IF ~current_user.ok
        THEN [programs |-> table,
              response |-> Failure("delete_program", token, ArgId(id), current_user.error)]
        ELSE IF ~HasProgram(table, id)
        THEN [programs |-> table,
              response |-> Failure("delete_program", token, ArgId(id), program_not_found)]
        ELSE IF fault
        THEN [programs |-> table,
              response |-> Failure("delete_program", token, ArgId(id), error_deleting_program)]
        ELSE [programs |-> Remove(table, id),
              response |-> Message("delete_program", token, id, "Program deleted successfully")]

\* The id sequence is not transactional: an insert whose commit raised may or
\* may not have drawn an id.
CreateProgram(token, program_data, fault) ==
    LET result == create_program(users, programs, token, program_data,
                                 nextProgramId, now, fault)
    IN  /\ Len(result.programs) <= MaxPrograms
        /\ programs' = result.programs
        /\ nextProgramId' \in
               IF result.response.status = 200 THEN {nextProgramId + 1}
               ELSE IF result.response.status = 500
               THEN {nextProgramId, nextProgramId + 1}
               ELSE {nextProgramId}
        /\ nextProgramId' <= MaxPrograms + 1
        /\ last' = result.response
        /\ UNCHANGED <<users, inflight, tokens, now, testimonials, nextTestimonialId, files,
                   members, events, nextEventId, sessions>>

GetProgram(token, id) ==
    /\ last' = get_program(users, programs, token, id, now)
    /\ UNCHANGED <<users, inflight, tokens, now, testimonials, nextTestimonialId,
                   programs, nextProgramId, files,
                   members, events, nextEventId, sessions>>

UpdateProgram(token, id, json, fault) ==
    LET result == update_program(users, programs, token, id, ProgramUpdate(json),
                                 now, fault)
    IN  /\ programs' = result.programs
        /\ last' = result.response
        /\ UNCHANGED <<users, inflight, tokens, now, testimonials, nextTestimonialId,
                       nextProgramId, files,
                   members, events, nextEventId, sessions>>

DeleteProgram(token, id, fault) ==
    LET result == delete_program(users, programs, token, id, now, fault)
    IN  /\ programs' = result.programs
        /\ last' = result.response
        /\ UNCHANGED <<users, inflight, tokens, now, testimonials, nextTestimonialId,
                       nextProgramId, files,
                   members, events, nextEventId, sessions>>

(***************************************************************************)
(* app/api/v1/members.py and app/api/v1/events.py.  The path parameter of  *)
(* these handlers is declared `str`, the id column is an Integer: the      *)
(* PostgreSQL store reads the text of an integer as that integer and       *)
(* refuses any other text (invalid input syntax for type integer), an      *)
(* exception no handler here catches.                                      *)
(***************************************************************************)
MaxEvents == 1
PathIds == {"1", "2", "3", "abc"}

IsIntegerText(path) == \E n \in 0..9 : ToString(n) = path
IntegerOf(path) == CHOOSE n \in 0..9 : ToString(n) = path

\* db.query(Model).filter(Model.id == path).first() finds a row.
HasRow(table, path) ==
    /\ IsIntegerText(path)
    /\ \E i \in 1..Len(table) : table[i].id = IntegerOf(path)

RowAt(table, path) == Row(table, IntegerOf(path))

Records(op, token, rows) ==
    Response(op, token, NoArg, 200, [NoBody EXCEPT !.records = rows])

member_not_found == HTTPException(404, "Member not found", "")
event_not_found == HTTPException(404, "Event not found", "")

\* The members table of a deployment whose rows were loaded into the store:
\* the columns of models/member.py the model follows.
SeededMembers ==
    <<[id |-> 1, name |-> "Moe", role |-> "chair", updated_at |-> Null],
      [id |-> 2, name |-> "Zoe", role |-> "clerk", updated_at |-> Null]>>

MemberCreates == [name : {"Moe"}, role : {"chair"}]

\* The JSON bodies of PUT /members/{id}.
MemberJsons ==
    {[fields_set |-> keys,
      name |-> IF "name" \in keys THEN "Max" ELSE None,
      role |-> IF "role" \in keys THEN "treasurer" ELSE None] :
        keys \in SUBSET {"name", "role"}}

\* MemberUpdate declares name, role, bio and image_url.
MemberUpdate(json) ==
    [fields_set |-> json.fields_set \cap {"name", "role", "bio", "image_url"},
     name |-> json.name, role |-> json.role]

UpdatedMember(row, update_data) ==
    LET new == [id |-> row.id,
                name |-> Supplied(update_data, "name", row.name),
                role |-> Supplied(update_data, "role", row.role),
                updated_at |-> row.updated_at]
    IN  IF new = row THEN row ELSE [new EXCEPT !.updated_at = Timestamp]

\* GET /members: Member has no first_name, last_name, email or is_active
\* attribute, so building either filter raises AttributeError.
get_members(db, table, token, search, is_active, t) ==
    LET current_user == get_current_user(db, token, t)
    IN  IF ~current_user.ok
        THEN Failure("get_members", token, NoArg, current_user.error)
        ELSE IF search # None
        THEN Failure("get_members", token, NoArg, InternalServerError)
        ELSE IF is_active # None
        THEN Failure("get_members", token, NoArg, InternalServerError)
        ELSE Records("get_members", token, table)

\* GET /members/{member_id}
get_member(db, table, token, member_id, t) ==
    LET current_user == get_current_user(db, token, t)
    IN  IF ~current_user.ok
        THEN Failure("get_member", token, ArgId(member_id), current_user.error)
        ELSE IF ~IsIntegerText(member_id)
        THEN Failure("get_member", token, ArgId(member_id), InternalServerError)
        ELSE IF ~HasRow(table, member_id)
        THEN Failure("get_member", token, ArgId(member_id), member_not_found)
        ELSE Response("get_member", token, ArgId(member_id), 200,
                      [NoBody EXCEPT !.records = <<RowAt(table, member_id)>>])

\* POST /members: the duplicate check reads Member.email, an attribute the
\* class does not have.
create_member(db, table, token, member, t) ==
    LET current_user == get_current_user(db, token, t)
    IN  IF ~current_user.ok
        THEN [members |-> table,
              response |-> Failure("create_member", token, NoArg, current_user.error)]
        ELSE [members |-> table,
              response |-> Failure("create_member", token, NoArg, InternalServerError)]

\* PUT /members/{member_id}
update_member(db, table, token, member_id, member_update, t) ==
    LET current_user == get_current_user(db, token, t)
        arg == ArgId(member_id)
    IN  IF ~current_user.ok
        THEN [members |-> table,
              response |-> Failure("update_member", token, arg, current_user.error)]
        ELSE IF ~IsIntegerText(member_id)
        THEN [members |-> table,
              response |-> Failure("update_member", token, arg, InternalServerError)]
        ELSE IF ~HasRow(table, member_id)
        THEN [members |-> table,
              response |-> Failure("update_member", token, arg, member_not_found)]
        ELSE [members |->
                  [i \in 1..Len(table) |->
                      IF table[i].id = IntegerOf(member_id)
                      THEN UpdatedMember(table[i], member_update)
                      ELSE table[i]],
              response |-> Response("update_member", token, arg, 200, NoBody)]

\* DELETE /members/{member_id}: "member.is_active = False" sets a plain
\* attribute of the instance (the class maps no such column: nothing of it
\* reaches the store); "member.updated_at = datetime.utcnow()" is written.
delete_member(db, table, token, member_id, t) ==
    LET current_user == get_current_user(db, token, t)
        arg == ArgId(member_id)
    IN  IF ~current_user.ok
        THEN [members |-> table,
              response |-> Failure("delete_member", token, arg, current_user.error)]
        ELSE IF ~IsIntegerText(member_id)
        THEN [members |-> table,
              response |-> Failure("delete_member", token, arg, InternalServerError)]
        ELSE IF ~HasRow(table, member_id)
        THEN [members |-> table,
              response |-> Failure("delete_member", token, arg, member_not_found)]
        ELSE [members |->
                  [i \in 1..Len(table) |->
                      IF table[i].id = IntegerOf(member_id)
                      THEN [table[i] EXCEPT !.updated_at = Timestamp]
                      ELSE table[i]],
              response |-> Response("delete_member", token, arg, 200,
                                    [NoBody EXCEPT !.message = "Member deleted successfully"])]

GetMembers(token, search, is_active) ==
    /\ last' = get_members(users, members, token, search, is_active, now)
    /\ UNCHANGED <<users, inflight, tokens, now, testimonials, nextTestimonialId,
                   programs, nextProgramId, files,
                   members, events, nextEventId, sessions>>

GetMember(token, member_id) ==
    /\ last' = get_member(users, members, token, member_id, now)
    /\ UNCHANGED <<users, inflight, tokens, now, testimonials, nextTestimonialId,
                   programs, nextProgramId, files,
                   members, events, nextEventId, sessions>>

CreateMember(token, member) ==
    LET result == create_member(users, members, token, member, now)
    IN  /\ members' = result.members
        /\ last' = result.response
        /\ UNCHANGED <<users, inflight, tokens, now, testimonials, nextTestimonialId,
                       programs, nextProgramId, files,
                       events, nextEventId, sessions>>

UpdateMember(token, member_id, json) ==
    LET result == update_member(users, members, token, member_id,
                                MemberUpdate(json), now)
    IN  /\ members' = result.members
        /\ last' = result.response
        /\ UNCHANGED <<users, inflight, tokens, now, testimonials, nextTestimonialId,
                       programs, nextProgramId, files,
                       events, nextEventId, sessions>>

DeleteMember(token, member_id) ==
    LET result == delete_member(users, members, token, member_id, now)
    IN  /\ members' = result.members
        /\ last' = result.response
        /\ UNCHANGED <<users, inflight, tokens, now, testimonials, nextTestimonialId,
                       programs, nextProgramId, files,
                       events, nextEventId, sessions>>

\* EventCreate, as far as the model follows it: title and location.
EventCreates == [title : {"Gala"}, location : {"Hall"}]

\* The JSON bodies of PUT /events/{id}.
EventJsons ==
    {[fields_set |-> keys,
      title |-> IF "title" \in keys THEN "Fair" ELSE None,
      location |-> IF "location" \in keys THEN "Park" ELSE None] :
        keys \in SUBSET {"title", "location"}}

\* EventUpdate declares title, description, date, location, image_url and
\* max_participants.
EventUpdate(json) ==
    [fields_set |-> json.fields_set \cap {"title", "description", "date", "location",
                                          "image_url", "max_participants"},
     title |-> json.title, location |-> json.location]

UpdatedEvent(row, update_data) ==
    LET new == [id |-> row.id,
                title |-> Supplied(update_data, "title", row.title),
                location |-> Supplied(update_data, "location", row.location),
                updated_at |-> row.updated_at]
    IN  IF new = row THEN row ELSE [new EXCEPT !.updated_at = Timestamp]

\* GET /events/{event_id}: the handler declares no dependency on the gate.
get_event(db, table, token, event_id, t) ==
    IF ~IsIntegerText(event_id)
    THEN Failure("get_event", token, ArgId(event_id), InternalServerError)
    ELSE IF ~HasRow(table, event_id)
    THEN Failure("get_event", token, ArgId(event_id), event_not_found)
    ELSE Response("get_event", token, ArgId(event_id), 200,
                  [NoBody EXCEPT !.records = <<RowAt(table, event_id)>>])

\* POST /events (admin only)
create_event(db, table, token, event, id, t) ==
    LET current_user == get_admin_user(db, token, t)
    IN  IF ~current_user.ok
        THEN [events |-> table,
              response |-> Failure("create_event", token, NoArg, current_user.error)]
        ELSE [events |->
                  Append(table, [id |-> id, title |-> event.title,
                                 location |-> event.location, updated_at |-> Null]),
              response |-> Response("create_event", token, ArgId(ToString(id)), 200, NoBody)]

\* PUT /events/{event_id} (admin only)
update_event(db, table, token, event_id, event_update, t) ==
    LET current_user == get_admin_user(db, token, t)
        arg == ArgId(event_id)
    IN  IF ~current_user.ok
        THEN [events |-> table,
              response |-> Failure("update_event", token, arg, current_user.error)]
        ELSE IF ~IsIntegerText(event_id)
        THEN [events |-> table,
              response |-> Failure("update_event", token, arg, InternalServerError)]
        ELSE IF ~HasRow(table, event_id)
        THEN [events |-> table,
              response |-> Failure("update_event", token, arg, event_not_found)]
        ELSE [events |->
                  [i \in 1..Len(table) |->
                      IF table[i].id = IntegerOf(event_id)
                      THEN UpdatedEvent(table[i], event_update)
                      ELSE table[i]],
              response |-> Response("update_event", token, arg, 200, NoBody)]

\* PUT /events/{event_id}/toggle-status (admin only): "event.is_active = not
\* event.is_active" reads an attribute the Event class does not have.
toggle_event_status(db, table, token, event_id, t) ==
    LET current_user == get_admin_user(db, token, t)
        arg == ArgId(event_id)
        op == "toggle_event_status"
    IN  IF ~current_user.ok
        THEN [events |-> table,
              response |-> Failure(op, token, arg, current_user.error)]
        ELSE IF ~IsIntegerText(event_id)
        THEN [events |-> table,
              response |-> Failure(op, token, arg, InternalServerError)]
        ELSE IF ~HasRow(table, event_id)
        THEN [events |-> table,
              response |-> Failure(op, token, arg, event_not_found)]
        ELSE IF "is_active" \notin DOMAIN RowAt(table, event_id)
        THEN [events |-> table,
              response |-> Failure(op, token, arg, InternalServerError)]
        ELSE [events |->
                  [i \in 1..Len(table) |->
                      IF table[i].id = IntegerOf(event_id)
                      THEN [table[i] EXCEPT !.is_active = ~@, !.updated_at = Timestamp]
                      ELSE table[i]],
              response |->
                  Response(op, token, arg, 200,
                           [NoBody EXCEPT !.message =
                               IF ~RowAt(table, event_id).is_active
                               THEN "Event activated successfully"
                               ELSE "Event deactivated successfully"])]

\* DELETE /events/{event_id} (admin only)
delete_event(db, table, token, event_id, t) ==
    LET current_user == get_admin_user(db, token, t)
        arg == ArgId(event_id)
    IN  IF ~current_user.ok
        THEN [events |-> table,
              response |-> Failure("delete_event", token, arg, current_user.error)]
        ELSE IF ~IsIntegerText(event_id)
        THEN [events |-> table,
              response |-> Failure("delete_event", token, arg, InternalServerError)]
        ELSE IF ~HasRow(table, event_id)
        THEN [events |-> table,
              response |-> Failure("delete_event", token, arg, event_not_found)]
        ELSE [events |-> Remove(table, IntegerOf(event_id)),
              response |-> Response("delete_event", token, arg, 200,
                                    [NoBody EXCEPT !.message = "Event deleted successfully"])]

GetEvent(token, event_id) ==
    /\ last' = get_event(users, events, token, event_id, now)
    /\ UNCHANGED <<users, inflight, tokens, now, testimonials, nextTestimonialId,
                   programs, nextProgramId, files,
                   members, events, nextEventId, sessions>>

CreateEvent(token, event) ==
    LET result == create_event(users, events, token, event, nextEventId, now)
    IN  /\ Len(result.events) <= MaxEvents
        /\ events' = result.events
        /\ nextEventId' =
               IF result.response.status = 200 THEN nextEventId + 1 ELSE nextEventId
        /\ nextEventId' <= MaxEvents + 1
        /\ last' = result.response
        /\ UNCHANGED <<users, inflight, tokens, now, testimonials, nextTestimonialId,
                       programs, nextProgramId, files, members, sessions>>

UpdateEvent(token, event_id, json) ==
    LET result == update_event(users, events, token, event_id, EventUpdate(json), now)
    IN  /\ events' = result.events
        /\ last' = result.response
        /\ UNCHANGED <<users, inflight, tokens, now, testimonials, nextTestimonialId,
                       programs, nextProgramId, files, members, nextEventId, sessions>>

ToggleEventStatus(token, event_id) ==
    LET result == toggle_event_status(users, events, token, event_id, now)
    IN  /\ events' = result.events
        /\ last' = result.response
        /\ UNCHANGED <<users, inflight, tokens, now, testimonials, nextTestimonialId,
                       programs, nextProgramId, files, members, nextEventId, sessions>>

DeleteEvent(token, event_id) ==
    LET result == delete_event(users, events, token, event_id, now)
    IN  /\ events' = result.events
        /\ last' = result.response
        /\ UNCHANGED <<users, inflight, tokens, now, testimonials, nextTestimonialId,
                       programs, nextProgramId, files, members, nextEventId, sessions>>

(***************************************************************************)
(* The two toggles in two steps, as a worker process runs them beside      *)
(* another: the query loads the row into the request's session; the flag   *)
(* is then computed from the loaded instance and committed.                *)
(***************************************************************************)
FlagOf(op) == IF op = "toggle_event_status" THEN "is_active" ELSE "is_featured"

\* The gate and the query of the handler: the row it loaded, or its failure.
toggle_query(db, table, op, token, id, t) ==
    LET current_user == get_admin_user(db, token, t)
        found == IF op = "toggle_event_status"
                 THEN HasRow(table, id)
                 ELSE HasTestimonial(table, id)
    IN  IF ~current_user.ok
        THEN [ok |-> FALSE, row |-> Null,
              response |-> Failure(op, token, ArgId(id), current_user.error)]
        ELSE IF op = "toggle_event_status" /\ ~IsIntegerText(id)
        THEN [ok |-> FALSE, row |-> Null,
              response |-> Failure(op, token, ArgId(id), InternalServerError)]
        ELSE IF ~found
        THEN [ok |-> FALSE, row |-> Null,
              response |-> Failure(op, token, ArgId(id),
                                   IF op = "toggle_event_status"
                                   THEN event_not_found
                                   ELSE testimonial_not_found)]
        ELSE [ok |-> TRUE,
              row |-> IF op = "toggle_event_status" THEN RowAt(table, id)
                      ELSE Row(table, id),
              response |-> Response(op, token, ArgId(id), 0, NoBody)]

\* "x.flag = not x.flag; db.commit()" on the instance the session loaded: the
\* read of a flag the instance does not have raises AttributeError; otherwise
\* the UPDATE writes the negation of the value that was loaded.  An UPDATE that
\* matches no row (the row was deleted meanwhile) raises StaleDataError.
toggle_write(table, session) ==
    LET op == session.op
        flag == FlagOf(op)
        loaded == session.row
        arg == ArgId(session.id)
    IN  IF flag \notin DOMAIN loaded
        THEN [table |-> table,
              response |-> Failure(op, session.token, arg, InternalServerError)]
        ELSE IF ~\E i \in 1..Len(table) : table[i].id = loaded.id
        THEN [table |-> table,
              response |-> Failure(op, session.token, arg, InternalServerError)]
        ELSE [table |->
                  [i \in 1..Len(table) |->
                      IF table[i].id = loaded.id
                      THEN [table[i] EXCEPT ![flag] = ~loaded[flag],
                                            !.updated_at = Timestamp]
                      ELSE table[i]],
              response |->
                  Response(op, session.token, arg, 200,
                           [NoBody EXCEPT !.message =
                               IF op = "toggle_event_status"
                               THEN IF ~loaded[flag]
                                    THEN "Event activated successfully"
                                    ELSE "Event deactivated successfully"
                               ELSE IF ~loaded[flag]
                                    THEN "Testimonial featured successfully"
                                    ELSE "Testimonial unfeatured successfully"])]

\* Worker w takes a toggle request up to its query.
ToggleQuery(w, op, token, id) ==
    LET result == toggle_query(users,
                               IF op = "toggle_event_status" THEN events
                               ELSE testimonials,
                               op, token, id, now)
    IN  /\ sessions[w].state = "idle"
        /\ IF result.ok
           THEN sessions' = [sessions EXCEPT ![w] =
                                [NoSession EXCEPT !.state = "loaded", !.op = op,
                                                  !.token = token, !.id = id,
                                                  !.row = result.row]]
           ELSE UNCHANGED sessions
        /\ last' = result.response
        /\ UNCHANGED <<users, inflight, tokens, now, testimonials, nextTestimonialId,
                       programs, nextProgramId, files, members, events, nextEventId>>

\* Worker w takes its request from the query to the response.
ToggleWrite(w) ==
    /\ sessions[w].state = "loaded"
    /\ IF sessions[w].op = "toggle_event_status"
       THEN LET result == toggle_write(events, sessions[w])
            IN  /\ events' = result.table
                /\ last' = result.response
                /\ UNCHANGED testimonials
       ELSE LET result == toggle_write(testimonials, sessions[w])
            IN  /\ testimonials' = result.table
                /\ last' = result.response
                /\ UNCHANGED events
    /\ sessions' = [sessions EXCEPT ![w] = NoSession]
    /\ UNCHANGED <<users, inflight, tokens, now, nextTestimonialId,
                   programs, nextProgramId, files, members, nextEventId>>

(***************************************************************************)
(* app/api/v1/upload.py.  Neither handler declares a dependency on the     *)
(* access gate (the Depends(get_current_user) lines are commented out):    *)
(* the Authorization header of the request is not looked at.               *)
(***************************************************************************)
ContentTypes == {"image/png", "text/html"}
allowed_content_types == {"image/jpeg", "image/png", "image/gif", "image/webp"}

\* A filename is a sequence of pieces of text, so that "contains" and "starts
\* with" are computed on it.  No piece holds part of "/", "\" or ".." that
\* another piece completes.
Pieces == {"program_", "1", "2", ".png", "/", "\\", ".."}
MaxPieces == 3
AllFilenames == UNION {[1..n -> Pieces] : n \in 1..MaxPieces}

\* The n-th name the handler makes from the clock; no two uploads share one.
UniqueFilename(n) == <<"program_", ToString(n), ".png">>
Uploadable == {UniqueFilename(n) : n \in 1..(MaxFiles + 1)}

\* Entries of the storage directory that are directories, not files.
Directories == {<<"program_", "1">>}

\* A sample of the filenames a client may ask to delete.
Filenames == Uploadable \cup {<<"..", "/", "1">>, <<"1", ".png">>}

RECURSIVE Text(_)
Text(filename) == IF filename = <<>> THEN "" ELSE Head(filename) \o Text(Tail(filename))

\* "/" in filename or "\\" in filename or ".." in filename
HasPathSeparator(filename) ==
    \E i \in 1..Len(filename) : filename[i] \in {"/", "\\", ".."}

\* filename.startswith("program_")
StartsWithProgram(filename) == Len(filename) > 0 /\ filename[1] = "program_"

invalid_image_format ==
    HTTPException(400, "Invalid image format. Only JPEG, PNG, GIF, and WebP are allowed.", "")
image_too_large == HTTPException(400, "Image size too large. Maximum size is 5MB.", "")
invalid_filename_format == HTTPException(400, "Invalid filename format", "")
invalid_image_file == HTTPException(400, "Invalid image file", "")
image_not_found == HTTPException(404, "Image file not found", "")
invalid_file_path == HTTPException(400, "Invalid file path", "")
error_deleting_image == HTTPException(500, "Error deleting image", "")

\* POST /upload
upload_program_image(stored, token, content_type, too_large) ==
    LET unique_filename ==
            UniqueFilename(CHOOSE n \in 1..(Cardinality(stored) + 1) :
                               /\ UniqueFilename(n) \notin stored
                               /\ \A m \in 1..(n - 1) : UniqueFilename(m) \in stored)
    IN  IF content_type \notin allowed_content_types
        THEN [files |-> stored,
              response |-> Failure("upload_program_image", token, NoArg, invalid_image_format)]
        ELSE IF too_large
        THEN [files |-> stored,
              response |-> Failure("upload_program_image", token, NoArg, image_too_large)]
        ELSE [files |-> stored \cup {unique_filename},
              response |-> Response("upload_program_image", token, NoArg, 200,
                                    [NoBody EXCEPT !.message = Text(unique_filename)])]

\* A handler that looks the file up without checking the prefix of its name.
delete_program_image_anyprefix(stored, token, filename, fault) ==
    LET arg == ArgId(filename)
        op == "delete_program_image"
    IN  IF HasPathSeparator(filename)
        THEN [files |-> stored, response |-> Failure(op, token, arg, invalid_filename_format)]
        ELSE IF filename \notin stored \cup Directories
        THEN [files |-> stored, response |-> Failure(op, token, arg, image_not_found)]
        ELSE IF filename \notin stored
        THEN [files |-> stored, response |-> Failure(op, token, arg, invalid_file_path)]
        ELSE IF fault
        THEN [files |-> stored, response |-> Failure(op, token, arg, error_deleting_image)]
        ELSE [files |-> stored \ {filename},
              response |-> Response(op, token, arg, 200,
                                    [NoBody EXCEPT !.message = "Image deleted successfully"])]

\* DELETE /upload/{filename}: `stored` holds the regular files of the storage
\* directory; `fault` is the file system's answer to unlink(): TRUE when it
\* raises.
delete_program_image(stored, token, filename, fault) ==
    LET arg == ArgId(filename)
        op == "delete_program_image"
    IN  IF HasPathSeparator(filename)
        THEN [files |-> stored, response |-> Failure(op, token, arg, invalid_filename_format)]
        ELSE IF ~StartsWithProgram(filename)
        THEN [files |-> stored, response |-> Failure(op, token, arg, invalid_image_file)]
        ELSE IF filename \notin stored \cup Directories
        THEN [files |-> stored, response |-> Failure(op, token, arg, image_not_found)]
        ELSE IF filename \notin stored
        THEN [files |-> stored, response |-> Failure(op, token, arg, invalid_file_path)]
        ELSE IF fault
        THEN [files |-> stored, response |-> Failure(op, token, arg, error_deleting_image)]
        ELSE [files |-> stored \ {filename},
              response |-> Response(op, token, arg, 200,
                                    [NoBody EXCEPT !.message = "Image deleted successfully"])]

UploadImage(token, content_type, too_large) ==
    LET result == upload_program_image(files, token, content_type, too_large)
    IN  /\ Cardinality(result.files) <= MaxFiles
        /\ files' = result.files
        /\ last' = result.response
        /\ UNCHANGED <<users, inflight, tokens, now, testimonials, nextTestimonialId,
                       programs, nextProgramId,
                   members, events, nextEventId, sessions>>

DeleteImage(token, filename, fault) ==
    LET result == delete_program_image(files, token, filename, fault)
    IN  /\ files' = result.files
        /\ last' = result.response
        /\ UNCHANGED <<users, inflight, tokens, now, testimonials, nextTestimonialId,
                       programs, nextProgramId,
                   members, events, nextEventId, sessions>>

(***************************************************************************)
(* app/core/database.py: get_db.  Every handler modelled here declares     *)
(* Depends(get_db), and so does get_current_user: FastAPI calls get_db     *)
(* once per request, before the gate, and runs the rest of the generator   *)
(* when the request ends.  sessions[w] is the session of the request that  *)
(* worker w handles.                                                       *)
(***************************************************************************)
MaxSessions == 4

SessionOps == {"register", "login", "read_users", "create_new_user"}

\* The bodies of the requests worker sessions are followed with.
SessionUser ==
    [email |-> "a@x.com", password |-> "pw1", name |-> "Ana", userType |-> "member",
     is_active |-> TRUE, is_superuser |-> FALSE]
SessionUserIn == [email |-> "A@x.com", password |-> "pw1"]

\* db = SessionLocal(): a new Session object, none that was handed out before.
SessionLocal(open) ==
    1 + (CHOOSE m \in 0..MaxSessions :
             /\ \A w \in 1..MaxInFlight : open[w].sid <= m
             /\ m = 0 \/ \E w \in 1..MaxInFlight : open[w].sid = m)

\* The generator closes the session only when the request returned normally
\* (a get_db without try/finally).
get_db_closes_onreturn(outcome) == outcome = "returned"

\* try: yield db; finally: db.close()
get_db_closes(outcome) == TRUE

\* How the request ended: the handler returned, the gate rejected the request,
\* or an exception was raised past the handler.
Outcome(gate, response) ==
    IF ~gate.ok THEN "rejected"
    ELSE IF response.status = 200 THEN "returned"
    ELSE "raised"

\* The dependencies and the handler of the request, run with its session.
handle(db, op, token, t) ==
    CASE op = "register" ->
             LET r == register(db, SessionUser)
             IN  [users |-> r.users, response |-> r.response,
                  outcome |-> Outcome(Pass(NoUser), r.response)]
      [] op = "login" ->
             LET r == login(db, SessionUser.email, SessionUser.password, t)
             IN  [users |-> db, response |-> r,
                  outcome |-> Outcome(Pass(NoUser), r)]
      [] op = "read_users" ->
             LET r == read_users(db, token, t)
             IN  [users |-> db, response |-> r,
                  outcome |-> Outcome(get_current_active_user(db, token, t), r)]
      [] op = "create_new_user" ->
             LET r == create_new_user(db, token, SessionUserIn, t)
             IN  [users |-> r.users, response |-> r.response,
                  outcome |-> Outcome(get_current_active_user(db, token, t), r.response)]

\* A request arrives at worker w: get_db runs up to its yield.
SessionOpen(w, op, token) ==
    /\ sessions[w].state \in {"idle", "closed"}
    /\ SessionLocal(sessions) <= MaxSessions
    /\ sessions' = [sessions EXCEPT ![w] =
                       [NoSession EXCEPT !.state = "open",
                                         !.sid = SessionLocal(sessions),
                                         !.op = op, !.token = token]]
    /\ UNCHANGED <<users, inflight, tokens, now, testimonials, nextTestimonialId,
                   programs, nextProgramId, files, members, events, nextEventId, last>>

\* The gate and the handler of the request of worker w.
SessionHandle(w) ==
    LET result == handle(users, sessions[w].op, sessions[w].token, now)
    IN  /\ sessions[w].state = "open"
        /\ users' = result.users
        /\ tokens' = IF sessions[w].op = "login" /\ result.response.status = 200
                     THEN tokens \cup {result.response.body.access_token}
                     ELSE tokens
        /\ last' = result.response
        /\ sessions' = [sessions EXCEPT ![w].state = "ended",
                                        ![w].outcome = result.outcome]
        /\ UNCHANGED <<inflight, now, testimonials, nextTestimonialId,
                       programs, nextProgramId, files, members, events, nextEventId>>

\* The request of worker w has ended: the rest of get_db runs.
SessionClose(w) ==
    /\ sessions[w].state = "ended"
    /\ sessions' = [sessions EXCEPT ![w] =
                       IF get_db_closes(sessions[w].outcome)
                       THEN [@ EXCEPT !.state = "closed", !.closes = @ + 1]
                       ELSE [@ EXCEPT !.state = "abandoned"]]
    /\ UNCHANGED <<users, inflight, tokens, now, testimonials, nextTestimonialId,
                   programs, nextProgramId, files, members, events, nextEventId, last>>

(***************************************************************************)
(* The system.                                                             *)
(***************************************************************************)
TestimonialIds == 1..(MaxTestimonials + 1)

\* The registrations that leave is_superuser at its default.
Members == {r \in RegisterRequests : ~r.is_superuser}

\* Registration, login and the users endpoints; requests do not overlap.
Next ==
    \/ Tick
    \/ \E token \in tokens : Discard(token)
    \/ \E user_data \in Members : Register(user_data)
    \/ \E email \in Emails, password \in Passwords : Login(email, password)
    \/ \E token \in Bearers : ReadUsers(token)
    \/ \E token \in Bearers, user_in \in UserCreates : CreateNewUser(token, user_in)

Spec == Init /\ [][Next]_vars

\* The access gate in front of the testimonial handlers.
GateUsers == {r \in RegisterRequests : r.email # "not-an-email" /\ r.password = "pw1"}

NextGate ==
    \/ Tick
    \/ \E token \in tokens : Discard(token)
    \/ \E user_data \in GateUsers : Register(user_data)
    \/ \E email \in Emails \ {"not-an-email"} : Login(email, "pw1")
    \/ \E token \in Presentable : ReadUsers(token)
    \/ \E token \in Presentable, testimonial \in TestimonialCreates :
           CreateTestimonial(token, testimonial)
    \/ \E token \in Presentable, id \in TestimonialIds : ApproveTestimonial(token, id)
    \/ \E token \in Presentable, id \in TestimonialIds : RejectTestimonial(token, id)
    \/ \E token \in Presentable, id \in TestimonialIds : DeleteTestimonial(token, id)

SpecGate == Init /\ [][NextGate]_vars

\* Registration requests that overlap: each worker is between the check and the
\* commit of at most one request.
NextRace ==
    \/ \E w \in 1..MaxInFlight, user_data \in RegisterRequests : RegisterCheck(w, user_data)
    \/ \E w \in 1..MaxInFlight : RegisterCommit(w)
    \/ \E email \in Emails, password \in Passwords : Login(email, password)
    \/ \E token \in Bearers, user_in \in UserCreates : CreateNewUser(token, user_in)

SpecRace == Init /\ [][NextRace]_vars

\* Registration from request bodies that supply or leave out the optional fields.
NextRegister ==
    \/ \E body \in RegisterBodies : RegisterJson(body)
    \/ \E email \in Emails, password \in Passwords : Login(email, password)

SpecRegister == Init /\ [][NextRegister]_vars

\* Commits that fail: registrations that overlap or lose the store, and the
\* program handlers with a store that may refuse the commit.
FaultUsers ==
    {r \in RegisterRequests :
        /\ r.email # "not-an-email" /\ r.password = "pw1"
        /\ r.is_active /\ ~r.is_superuser}

NextFault ==
    \/ \E w \in 1..MaxInFlight, user_data \in FaultUsers : RegisterCheck(w, user_data)
    \/ \E w \in 1..MaxInFlight : RegisterCommit(w)
    \/ \E w \in 1..MaxInFlight : RegisterCommitFault(w)
    \/ \E email \in Emails \ {"not-an-email"} : Login(email, "pw1")
    \/ \E token \in Bearers, program_data \in ProgramCreates, fault \in BOOLEAN :
           CreateProgram(token, program_data, fault)
    \/ \E token \in Bearers, id \in ProgramIds, json \in ProgramJsons,
          fault \in BOOLEAN :
           UpdateProgram(token, id, json, fault)
    \/ \E token \in Bearers, id \in ProgramIds, fault \in BOOLEAN :
           DeleteProgram(token, id, fault)

SpecFault == Init /\ [][NextFault]_vars

\* The endpoints that write records or files, reached with and without a token.
UploadUsers ==
    {r \in RegisterRequests :
        /\ r.email = "a@x.com" /\ r.password = "pw1"
        /\ r.is_active /\ ~r.is_superuser}

NextUpload ==
    \/ Tick
    \/ \E user_data \in UploadUsers : Register(user_data)
    \/ Login("a@x.com", "pw1")
    \/ \E token \in Presentable, testimonial \in TestimonialCreates :
           CreateTestimonial(token, testimonial)
    \/ \E token \in Presentable, id \in TestimonialIds : DeleteTestimonial(token, id)
    \/ \E token \in Presentable, program_data \in ProgramCreates :
           CreateProgram(token, program_data, FALSE)
    \/ \E token \in Presentable, id \in ProgramIds, json \in ProgramJsons :
           UpdateProgram(token, id, json, FALSE)
    \/ \E token \in Presentable, id \in ProgramIds : DeleteProgram(token, id, FALSE)
    \/ \E token \in Presentable, content_type \in ContentTypes, too_large \in BOOLEAN :
           UploadImage(token, content_type, too_large)
    \/ \E token \in Presentable, filename \in Filenames :
           DeleteImage(token, filename, FALSE)

SpecUpload == Init /\ [][NextUpload]_vars

\* Testimonials and their moderation, by an ordinary user and by an elevated one.
ModerationUsers ==
    {r \in RegisterRequests :
        /\ r.password = "pw1" /\ r.is_active
        /\ \/ r.email = "a@x.com" /\ ~r.is_superuser
           \/ r.email = "A@x.com" /\ r.is_superuser}

NextModeration ==
    \/ \E user_data \in ModerationUsers : Register(user_data)
    \/ \E email \in {"a@x.com", "A@x.com"} : Login(email, "pw1")
    \/ \E token \in tokens : Discard(token)
    \/ \E token \in Bearers, testimonial \in TestimonialCreates :
           CreateTestimonial(token, testimonial)
    \/ \E token \in Bearers, id \in TestimonialIds : GetTestimonial(token, id)
    \/ \E token \in Bearers, id \in TestimonialIds, json \in TestimonialJsons :
           UpdateTestimonial(token, id, json)
    \/ \E token \in Bearers, id \in TestimonialIds : ApproveTestimonial(token, id)
    \/ \E token \in Bearers, id \in TestimonialIds : RejectTestimonial(token, id)
    \/ \E token \in Bearers, id \in TestimonialIds : ToggleFeatureTestimonial(token, id)
    \/ \E token \in Bearers, id \in TestimonialIds : DeleteTestimonial(token, id)

SpecModeration == Init /\ [][NextModeration]_vars

\* The start of a deployment whose members table holds rows already (no
\* handler of this program inserts one: create_member never gets that far).
InitSeeded ==
    /\ users = <<>>
    /\ inflight = [w \in 1..MaxInFlight |-> NoRequest]
    /\ tokens = {}
    /\ now = 0
    /\ testimonials = <<>>
    /\ nextTestimonialId = 1
    /\ programs = <<>>
    /\ nextProgramId = 1
    /\ files = {}
    /\ members = SeededMembers
    /\ events = <<>>
    /\ nextEventId = 1
    /\ sessions = [w \in 1..MaxInFlight |-> NoSession]
    /\ last = Idle

\* One elevated user, who creates and updates programs, events and
\* testimonials and updates the members.
UpdateUsers ==
    {r \in RegisterRequests :
        /\ r.email = "a@x.com" /\ r.password = "pw1"
        /\ r.is_active /\ r.is_superuser}

NextUpdate ==
    \/ \E user_data \in UpdateUsers : Register(user_data)
    \/ Login("a@x.com", "pw1")
    \/ \E token \in Bearers :
           CreateProgram(token, [title |-> "Chess", status |-> "active"], FALSE)
    \/ \E token \in Bearers, id \in ProgramIds, json \in ProgramJsons :
           UpdateProgram(token, id, json, FALSE)
    \/ \E token \in Bearers, member_id \in {"1", "abc"}, json \in MemberJsons :
           UpdateMember(token, member_id, json)
    \/ \E token \in Bearers, event \in EventCreates : CreateEvent(token, event)
    \/ \E token \in Bearers, event_id \in {"1", "2"}, json \in EventJsons :
           UpdateEvent(token, event_id, json)
    \/ \E token \in Bearers, testimonial \in TestimonialCreates :
           CreateTestimonial(token, testimonial)
    \/ \E token \in Bearers, id \in TestimonialIds, json \in TestimonialJsons :
           UpdateTestimonial(token, id, json)

SpecUpdate == InitSeeded /\ [][NextUpdate]_vars

\* Reads, updates and deletes by id, of ids that match a record and of ids
\* that match none, by one elevated user; the store may refuse the commit of
\* a program write.
NextNotFound ==
    \/ \E user_data \in UpdateUsers : Register(user_data)
    \/ Login("a@x.com", "pw1")
    \/ \E token \in Bearers :
           CreateProgram(token, [title |-> "Chess", status |-> "active"], FALSE)
    \/ \E token \in Bearers, id \in ProgramIds : GetProgram(token, id)
    \/ \E token \in Bearers, id \in ProgramIds, fault \in BOOLEAN :
           UpdateProgram(token, id, [fields_set |-> {"title"}, title |-> "Go",
                                     status |-> None], fault)
    \/ \E token \in Bearers, id \in ProgramIds, fault \in BOOLEAN :
           DeleteProgram(token, id, fault)
    \/ \E token \in Bearers, member_id \in PathIds : GetMember(token, member_id)
    \/ \E token \in Bearers, member_id \in PathIds :
           UpdateMember(token, member_id, [fields_set |-> {"name"}, name |-> "Max",
                                           role |-> None])
    \/ \E token \in Bearers, member_id \in PathIds : DeleteMember(token, member_id)
    \/ \E token \in Bearers, event \in EventCreates : CreateEvent(token, event)
    \/ \E token \in Bearers, event_id \in PathIds : GetEvent(token, event_id)
    \/ \E token \in Bearers, event_id \in PathIds :
           UpdateEvent(token, event_id, [fields_set |-> {"title"}, title |-> "Fair",
                                         location |-> None])
    \/ \E token \in Bearers, event_id \in PathIds : DeleteEvent(token, event_id)
    \/ \E token \in Bearers, testimonial \in TestimonialCreates :
           CreateTestimonial(token, testimonial)
    \/ \E token \in Bearers, id \in TestimonialIds : GetTestimonial(token, id)
    \/ \E token \in Bearers, id \in TestimonialIds : DeleteTestimonial(token, id)

SpecNotFound == InitSeeded /\ [][NextNotFound]_vars

\* The query parameters of GET /members: absent (None) or given.
SearchParams == {None, "moe"}
IsActiveParams == {None, "true", "false"}

\* The members endpoints, used by one ordinary user.
NextMembers ==
    \/ Tick
    \/ \E user_data \in UploadUsers : Register(user_data)
    \/ Login("a@x.com", "pw1")
    \/ \E token \in Bearers, search \in SearchParams, is_active \in IsActiveParams :
           GetMembers(token, search, is_active)
    \/ \E token \in Bearers, member_id \in PathIds : GetMember(token, member_id)
    \/ \E token \in Bearers, member \in MemberCreates : CreateMember(token, member)
    \/ \E token \in Bearers, member_id \in PathIds, json \in MemberJsons :
           UpdateMember(token, member_id, json)
    \/ \E token \in Bearers, member_id \in PathIds : DeleteMember(token, member_id)

SpecMembers == InitSeeded /\ [][NextMembers]_vars

\* Events and testimonials and their toggles, by an ordinary user and by an
\* elevated one; requests do not overlap.
NextToggle ==
    \/ \E user_data \in ModerationUsers : Register(user_data)
    \/ \E email \in {"a@x.com", "A@x.com"} : Login(email, "pw1")
    \/ \E token \in Bearers, event \in EventCreates : CreateEvent(token, event)
    \/ \E token \in Bearers, event_id \in PathIds : GetEvent(token, event_id)
    \/ \E token \in Bearers, event_id \in PathIds : ToggleEventStatus(token, event_id)
    \/ \E token \in Bearers, event_id \in PathIds : DeleteEvent(token, event_id)
    \/ \E token \in Bearers, testimonial \in TestimonialCreates :
           CreateTestimonial(token, testimonial)
    \/ \E token \in Bearers, id \in TestimonialIds : ToggleFeatureTestimonial(token, id)
    \/ \E token \in Bearers, id \in TestimonialIds : DeleteTestimonial(token, id)

SpecToggle == Init /\ [][NextToggle]_vars

\* Toggle requests of one elevated user that overlap in two workers.
NextToggleRace ==
    \/ \E user_data \in UpdateUsers : Register(user_data)
    \/ Login("a@x.com", "pw1")
    \/ \E token \in Bearers, event \in EventCreates : CreateEvent(token, event)
    \/ \E token \in Bearers, testimonial \in TestimonialCreates :
           CreateTestimonial(token, testimonial)
    \/ \E w \in 1..MaxInFlight, token \in Bearers, event_id \in PathIds :
           ToggleQuery(w, "toggle_event_status", token, event_id)
    \/ \E w \in 1..MaxInFlight, token \in Bearers, id \in TestimonialIds :
           ToggleQuery(w, "toggle_feature_testimonial", token, id)
    \/ \E w \in 1..MaxInFlight : ToggleWrite(w)

SpecToggleRace == Init /\ [][NextToggleRace]_vars

\* The image store alone: uploads, and deletions by every filename of up to
\* MaxPieces pieces, with an unlink that may fail.
NextImages ==
    \/ \E content_type \in ContentTypes, too_large \in BOOLEAN :
           UploadImage(NoToken, content_type, too_large)
    \/ \E filename \in AllFilenames, fault \in BOOLEAN :
           DeleteImage(NoToken, filename, fault)

SpecImages == Init /\ [][NextImages]_vars

\* Requests and their sessions, in MaxInFlight workers at a time.
NextSession ==
    \/ \E w \in 1..MaxInFlight, op \in {"register", "login"} :
           SessionOpen(w, op, NoToken)
    \/ \E w \in 1..MaxInFlight, op \in {"read_users", "create_new_user"},
          token \in Bearers :
           SessionOpen(w, op, token)
    \/ \E w \in 1..MaxInFlight : SessionHandle(w)
    \/ \E w \in 1..MaxInFlight : SessionClose(w)

SpecSession == Init /\ [][NextSession]_vars

\* A handler that was started ends, and FastAPI then resumes the generator of
\* every dependency with yield.
SpecSessionFair ==
    /\ SpecSession
    /\ \A w \in 1..MaxInFlight :
           WF_vars(SessionHandle(w)) /\ WF_vars(SessionClose(w))

(***************************************************************************)
(* What the claims speak of.                                               *)
(***************************************************************************)
\* The row with this email, were the gate to look the subject up.
Holder(token) == get_user_by_email(users, token.sub)

\* A token that login issued, presented before its expiry by a client whose user
\* record exists: a validly signed, unexpired token.
ValidBearer(token) ==
    /\ token \in tokens
    /\ now < token.exp
    /\ Holder(token) # NoUser

\* The handlers behind each dependency of app/api/deps.py.
UserGated == {"create_testimonial"}
ActiveGated == {"read_users", "create_new_user"}
AdminGated == {"approve_testimonial", "reject_testimonial", "delete_testimonial"}
Protected == UserGated \cup ActiveGated \cup AdminGated

\* The gate the handler of this operation declares.
RequiredGate(op, token) ==
    IF op \in AdminGated THEN get_admin_user(users, token, now)
    ELSE IF op \in ActiveGated THEN get_current_active_user(users, token, now)
    ELSE get_current_user(users, token, now)

not_enough_privileges == "The user doesn't have enough privileges"

\* C1: on every protected endpoint a request with a validly signed, unexpired
\* token of a user whose is_active is false is answered with the
\* authentication-required failure (401) and the store is left as it was.
C1_InactiveIsUnauthenticated ==
    [][(/\ last'.op \in Protected
        /\ ValidBearer(last'.token)
        /\ ~Holder(last'.token).is_active)
       => (last'.status = 401 /\ store' = store)]_vars

\* C2: on an endpoint gated by get_admin_user, a request with a valid token of a
\* user whose is_superuser is false is rejected with the authorization failure
\* and changes nothing; with a valid token of a user whose is_superuser is true
\* the request passes the gate (the handler answers: 200, or 404 for an unknown id).
C2_AdminGate ==
    [][(last'.op \in AdminGated /\ ValidBearer(last'.token))
       => IF Holder(last'.token).is_superuser
          THEN last'.status \in {200, 404}
          ELSE /\ last'.status = 400
               /\ last'.detail = not_enough_privileges
               /\ store' = store]_vars

\* An ordinary user's valid token was refused the deletion of an existing testimonial.
C2_Witness ==
    /\ last.op = "delete_testimonial"
    /\ last.detail = not_enough_privileges
    /\ ValidBearer(last.token)
    /\ ~Holder(last.token).is_superuser
    /\ HasTestimonial(testimonials, last.arg.id)

\* C3: fail-closed.  Whenever the gate an operation declares rejects the request
\* (no token, a token that does not verify, an expired one, an unknown user, an
\* insufficient role) the response is the gate's error and the persisted store is
\* the same after the request as before it.
C3_FailClosed ==
    [][(last'.op \in Protected /\ ~RequiredGate(last'.op, last'.token).ok)
       => /\ store' = store
          /\ last'.status = RequiredGate(last'.op, last'.token).error.status
          /\ last'.detail = RequiredGate(last'.op, last'.token).error.detail]_vars

\* A request to delete an existing testimonial was turned away with a 401.
C3_Witness ==
    /\ last.op = "delete_testimonial"
    /\ last.status = 401
    /\ HasTestimonial(testimonials, last.arg.id)

\* C4: no two user records have the same email, also when register requests for
\* one email overlap between their check and their commit.
C4_UniqueEmail ==
    \A i, j \in 1..Len(users) : users[i].email = users[j].email => i = j

\* Two registrations of one well-formed email overlapped: both passed the check,
\* one committed, and the commit of the other was refused by the store.
C4_Witness ==
    /\ last.op = "register"
    /\ last.status = 500
    /\ EmailStr(last.arg.email)
    /\ \E i \in 1..Len(users) : users[i].email = last.arg.email

Registered(email) == \E i \in 1..Len(users) : users[i].email = email

\* C5: register with an email equal, character for character, to that of an
\* existing user fails with the conflict (400) and leaves the user records as
\* they were; register with any other email succeeds and adds exactly one
\* record, with that email.
C5_RegisterConflictOrCreate ==
    [][last'.op = "register"
       => IF Registered(last'.arg.email)
          THEN /\ last'.status = 400
               /\ last'.detail = "Email already registered"
               /\ users' = users
          ELSE /\ last'.status = 200
               /\ Len(users') = Len(users) + 1
               /\ SubSeq(users', 1, Len(users)) = users
               /\ users'[Len(users')].email = last'.arg.email]_vars

\* C6: the hashed_password of every stored user record is a digest the hasher
\* made, never a plaintext; the record a registration adds holds the digest of
\* the password that registration supplied, and not the password itself.
C6_PasswordsHashed ==
    [][/\ \A i \in 1..Len(users') :
              /\ users'[i].hashed_password \notin Passwords
              /\ \E p \in Passwords : verify_password(p, users'[i].hashed_password)
       /\ Len(users') > Len(users)
              => /\ verify_password(last'.arg.password, users'[Len(users')].hashed_password)
                 /\ users'[Len(users')].hashed_password # last'.arg.password]_vars

\* A registration has just added a record that holds the digest of its password.
C6_Witness ==
    /\ last.op = "register"
    /\ last.status = 200
    /\ Len(users) = 2
    /\ verify_password(last.arg.password, users[2].hashed_password)

UserFields ==
    {"id", "email", "name", "userType", "is_active", "is_superuser",
     "created_at", "updated_at"}

\* A plaintext password, or a digest of one.
IsSecret(value) ==
    \/ value \in Passwords
    \/ \E p \in Passwords : verify_password(p, value)

\* C7: no response carries a password or a password digest: every user in a
\* response body has exactly the fields id, email, name, userType, is_active,
\* is_superuser, created_at and updated_at, and none of its texts, nor the
\* response's detail or message, is a password or a digest.
C7_NoSecretInResponse ==
    /\ ~IsSecret(last.detail)
    /\ ~IsSecret(last.body.message)
    /\ \A i \in 1..Len(last.body.users) :
           /\ DOMAIN last.body.users[i] = UserFields
           /\ \A f \in {"email", "name", "userType", "created_at", "updated_at"} :
                  ~IsSecret(last.body.users[i][f])

\* GET /users has answered with the two stored users.
C7_Witness ==
    /\ last.op = "read_users"
    /\ last.status = 200
    /\ Len(last.body.users) = 2

NoSuchUser(email) == ~Registered(email)

WrongPassword(email, password) ==
    \E i \in 1..Len(users) :
        /\ users[i].email = email
        /\ ~verify_password(password, users[i].hashed_password)

SameOutcome(r1, r2) ==
    /\ r1.status = r2.status
    /\ r1.detail = r2.detail
    /\ r1.headers = r2.headers
    /\ r1.body = r2.body

\* C8: a login with an email of no user and a login with a user's email and a
\* wrong password get the same response (status 401, same detail, same headers,
\* no body), and such a login issues no token and changes nothing.
C8_UniformLoginFailure ==
    [][/\ \A e1, e2 \in Emails, p1, p2 \in Passwords :
              (NoSuchUser(e1) /\ WrongPassword(e2, p2))
              => /\ SameOutcome(login(users, e1, p1, now), login(users, e2, p2, now))
                 /\ login(users, e1, p1, now).status = 401
       /\ (/\ last'.op = "login"
           /\ \/ NoSuchUser(last'.arg.email)
              \/ WrongPassword(last'.arg.email, last'.arg.password))
          => /\ last'.status = 401
             /\ last'.body = NoBody
             /\ tokens' = tokens
             /\ store' = store]_vars

\* A login with a user's email and a wrong password has failed, while some
\* other email belongs to no user.
C8_Witness ==
    /\ last.op = "login"
    /\ last.status = 401
    /\ WrongPassword(last.arg.email, last.arg.password)
    /\ \E e \in Emails : NoSuchUser(e)

Instants == 0..(MaxTime + ACCESS_TOKEN_EXPIRE_MINUTES + TickMinutes)

\* C9: for every active user, a login with the user's email and password
\* returns a token whose subject is that email, and the gate resolves the token,
\* at every instant before its expiry, to that user's record and no other.
C9_LoginGateRoundTrip ==
    [][\A i \in 1..Len(users) :
           (/\ last'.op = "login"
            /\ users[i].email = last'.arg.email
            /\ users[i].is_active
            /\ verify_password(last'.arg.password, users[i].hashed_password))
           => /\ last'.status = 200
              /\ last'.body.access_token.sub = users[i].email
              /\ \A t \in Instants :
                     t < last'.body.access_token.exp
                     => get_current_user(users, last'.body.access_token, t)
                            = Pass(users[i])]_vars

\* C10: a token issued at time t for subject s with the time-to-live
\* ACCESS_TOKEN_EXPIRE_MINUTES > 0 decodes to s at every instant before
\* t + ACCESS_TOKEN_EXPIRE_MINUTES and fails to decode at every instant after it.
C10_TokenExpiry ==
    [][/\ (last'.op = "login" /\ last'.status = 200)
          => LET token == last'.body.access_token
                 expiry == now + ACCESS_TOKEN_EXPIRE_MINUTES
             IN  /\ ACCESS_TOKEN_EXPIRE_MINUTES > 0
                 /\ token.sub = last'.arg.email
                 /\ \A t \in Instants :
                        /\ (now <= t /\ t < expiry)
                           => jwt_decode(token, SECRET_KEY, ALGORITHM, t)
                                  = [ok |-> TRUE, sub |-> token.sub]
                        /\ t > expiry
                           => ~jwt_decode(token, SECRET_KEY, ALGORITHM, t).ok
       /\ \A token \in tokens' :
              /\ now' < token.exp
                 => jwt_decode(token, SECRET_KEY, ALGORITHM, now').ok
              /\ now' > token.exp
                 => ~jwt_decode(token, SECRET_KEY, ALGORITHM, now').ok]_vars

\* A client presented a token after its expiry and was turned away.
C10_Witness ==
    /\ last.op = "read_users"
    /\ last.token \in tokens
    /\ now > last.token.exp
    /\ last.status = 401

\* C11: the access gate never accepts a token signed with a key other than
\* SECRET_KEY, or not signed at all, whatever subject and expiry it carries:
\* get_current_user, on which the other two dependencies rest, rejects every such
\* token, and a request to a protected endpoint that presents one passes none of
\* the three dependencies, is answered 401 and changes nothing.
C11_ForgedTokenRejected ==
    [][/\ \A forged \in Forgeries :
              get_current_user(users', forged, now') = Reject(credentials_exception)
       /\ (/\ last'.op \in Protected
           /\ last'.token.kind = "jwt"
           /\ last'.token.key # SECRET_KEY)
          => /\ ~get_current_user(users, last'.token, now).ok
             /\ ~get_current_active_user(users, last'.token, now).ok
             /\ ~get_current_active_superuser(users, last'.token, now).ok
             /\ last'.status = 401
             /\ store' = store]_vars

\* A forged token naming an existing superuser, not yet expired, was presented
\* to delete an existing testimonial and was turned away.
C11_Witness ==
    /\ last.op = "delete_testimonial"
    /\ last.token = Forged
    /\ now < Forged.exp
    /\ Holder(Forged) # NoUser
    /\ Holder(Forged).is_superuser
    /\ HasTestimonial(testimonials, last.arg.id)
    /\ last.status = 401

\* C12: every way identity resolution can fail (no Authorization header, a
\* string that is no token, a bad signature, an expired token, a subject of no
\* user) gives one and the same failure on every protected endpoint: whenever a
\* request is rejected by get_current_user, any other header that
\* get_current_user rejects would have got the same status and the same detail
\* from that endpoint's dependency.
C12_UniformGateFailure ==
    [][(/\ last'.op \in Protected
        /\ ~get_current_user(users, last'.token, now).ok)
       => \A other \in Presentable :
              ~get_current_user(users, other, now).ok
              => /\ RequiredGate(last'.op, other).error.status = last'.status
                 /\ RequiredGate(last'.op, other).error.detail = last'.detail]_vars

\* The users table with the role flag of row i set to this value.
WithRole(db, i, flag) == [db EXCEPT ![i].is_superuser = flag]

\* A user who passes a gate without the role flag passes it with the flag.
ElevationKeepsAccess ==
    \A i \in 1..Len(users), token \in Presentable :
        /\ get_current_user(WithRole(users, i, FALSE), token, now).ok
           => get_current_user(WithRole(users, i, TRUE), token, now).ok
        /\ get_current_active_user(WithRole(users, i, FALSE), token, now).ok
           => get_current_active_user(WithRole(users, i, TRUE), token, now).ok
        /\ get_current_active_superuser(WithRole(users, i, FALSE), token, now).ok
           => get_current_active_superuser(WithRole(users, i, TRUE), token, now).ok

\* Whoever passes the admin gate passes the member-level gates.
AdminPassesMemberGates ==
    \A token \in Presentable :
        get_current_active_superuser(users, token, now).ok
        => /\ get_current_user(users, token, now).ok
           /\ get_current_active_user(users, token, now).ok

\* C13: role monotonicity.  For every user and every gate, a user who passes the
\* gate with is_superuser = false passes it with is_superuser = true, all else
\* equal; and a user who passes the admin gate passes every member-level gate.
C13_RoleMonotone == ElevationKeepsAccess /\ AdminPassesMemberGates

\* The value the body supplies for the field, or the default when it supplies none.
SuppliedOr(body, field, default) ==
    IF field \in DOMAIN body THEN body[field] ELSE default

\* C14: a successful register persists a user whose userType, is_active and
\* is_superuser are the caller's values for the fields the request body
\* supplied, and the defaults ("member", true, false) for those it left out.
C14_RegisterFlags ==
    [][(last'.op = "register" /\ last'.status = 200)
       => \A body \in RegisterBodies :
              LET result == register(users, RegisterRequest(body))
                  row == users'[Len(users')]
              IN  (users' = result.users /\ last' = result.response)
                  => /\ Len(users') = Len(users) + 1
                     /\ row.userType = SuppliedOr(body, "userType", "member")
                     /\ row.is_active = SuppliedOr(body, "is_active", TRUE)
                     /\ row.is_superuser = SuppliedOr(body, "is_superuser", FALSE)]_vars

\* Two registrations have succeeded: one stored the default flags, the other
\* stored a userType, an is_active and an is_superuser that are not the defaults.
C14_Witness ==
    /\ last.op = "register"
    /\ last.status = 200
    /\ Len(users) = 2
    /\ users[1].userType = "member" /\ users[1].is_active /\ ~users[1].is_superuser
    /\ users[2].userType = "admin" /\ ~users[2].is_active /\ users[2].is_superuser

\* C15: register/login round trip.  Right after register(e, p, ...) has
\* succeeded, login(e, p) succeeds and login(e, p2) fails with the
\* authentication failure for every p2 other than p; and no later step, of any
\* operation, changes the outcome of a login with a registered email.
C15_RegisterLoginRoundTrip ==
    [][/\ (last'.op = "register" /\ last'.status = 200)
          => /\ login(users', last'.arg.email, last'.arg.password, now').status = 200
             /\ \A p2 \in Passwords \ {last'.arg.password} :
                    /\ login(users', last'.arg.email, p2, now').status = 401
                    /\ login(users', last'.arg.email, p2, now').detail
                           = "Incorrect email or password"
       /\ \A e \in Emails, p \in Passwords :
              Registered(e)
              => login(users', e, p, now').status = login(users, e, p, now).status]_vars

\* Time has passed and a second user has registered since the first one did;
\* the first one has just logged in with the password of the registration.
C15_Witness ==
    /\ last.op = "login"
    /\ last.status = 200
    /\ now > 0
    /\ Len(users) = 2
    /\ last.arg.email = users[1].email
    /\ verify_password(last.arg.password, users[1].hashed_password)

\* C16: token invalidation is purely time-based.  A token that the access gate
\* resolves to a user is resolved to the same user after every step that leaves
\* the clock before the token's expiry, whichever operation the step is: none
\* revokes a token or deletes a user record.
C16_TimeOnlyInvalidation ==
    [][\A token \in tokens :
           (/\ get_current_user(users, token, now).ok
            /\ now' < token.exp)
           => get_current_user(users', token, now')
                  = get_current_user(users, token, now)]_vars

\* A token issued at time 0 has been accepted at a later instant, after another
\* user had registered.
C16_Witness ==
    /\ last.op = "read_users"
    /\ last.status = 200
    /\ last.token \in tokens
    /\ last.token.exp = ACCESS_TOKEN_EXPIRE_MINUTES
    /\ now > 0
    /\ Len(users) = 2
    /\ Holder(last.token) = users[1]

\* The outcome of the dependency this operation declares, on this table and clock.
GateOutcome(op, db, token, t) ==
    IF op \in AdminGated THEN get_admin_user(db, token, t)
    ELSE IF op \in ActiveGated THEN get_current_active_user(db, token, t)
    ELSE get_current_user(db, token, t)

\* C17: the access gate is side-effect-free.  A request to a protected endpoint
\* leaves the user records, the issued tokens and the clock as they were; when
\* the gate rejects the request, or the handler behind it only reads, every
\* persisted record is as it was; and the gate, run again on the same request
\* after the step, gives the outcome it gave before.
C17_GateSideEffectFree ==
    [][last'.op \in Protected
       => /\ users' = users
          /\ tokens' = tokens
          /\ now' = now
          /\ (last'.op = "read_users"
              \/ ~GateOutcome(last'.op, users, last'.token, now).ok)
             => store' = store
          /\ GateOutcome(last'.op, users', last'.token, now')
                 = GateOutcome(last'.op, users, last'.token, now)]_vars

\* The gate resolved a valid token to its user, found the user inactive and
\* turned the request away.
C17_Witness ==
    /\ last.op = "read_users"
    /\ last.detail = "Inactive user"
    /\ ValidBearer(last.token)
    /\ ~Holder(last.token).is_active

\* C18: the register endpoint answers the first registration of an email with
\* status 201 and a body that holds the user's id and no password field, and a
\* registration of an email that is already registered with status 400.
C18_RegisterStatus ==
    [][last'.op = "register"
       => IF Registered(last'.arg.email)
          THEN last'.status = 400
          ELSE /\ last'.status = 201
               /\ Len(last'.body.users) = 1
               /\ "id" \in DOMAIN last'.body.users[1]
               /\ last'.body.users[1].id = Len(users')
               /\ "password" \notin DOMAIN last'.body.users[1]]_vars

ProgramWrites == {"create_program", "update_program", "delete_program"}

\* C19: a store failure during an operation's commit is surfaced on that same
\* request as an internal failure (500), without a retry, and leaves none of
\* the operation's changes in the store.  A register or a program write that
\* ended in 500 left the user and program records as they were; and each
\* program handler, run by a resolved user against a store that refuses the
\* commit, answers 500 and returns the table unchanged.
C19_CommitFailureSurfaces ==
    [][/\ (/\ last'.status = 500
           /\ last'.op \in ProgramWrites \cup {"register"})
          => /\ users' = users
             /\ programs' = programs
       /\ \A token \in tokens', program_data \in ProgramCreates :
              get_current_user(users', token, now').ok
              => /\ LET result == create_program(users', programs', token, program_data,
                                                nextProgramId', now', TRUE)
                    IN  /\ result.response.status = 500
                        /\ result.programs = programs'
                 /\ \A id \in ProgramIds, json \in ProgramJsons :
                        HasProgram(programs', id)
                        => LET updated == update_program(users', programs', token, id,
                                                         ProgramUpdate(json), now', TRUE)
                               deleted == delete_program(users', programs', token, id,
                                                         now', TRUE)
                           IN  /\ updated.response.status = 500
                               /\ updated.programs = programs'
                               /\ deleted.response.status = 500
                               /\ deleted.programs = programs']_vars

\* The commit of a deletion was refused: the request ended in 500 and the
\* program is still there.
C19_Witness ==
    /\ last.op = "delete_program"
    /\ last.status = 500
    /\ HasProgram(programs, last.arg.id)

\* C20: no request without a valid bearer token creates, modifies or deletes a
\* persisted record or a stored file, except the creation of a user through
\* register: a step of any other operation whose request carries no token that
\* get_current_user accepts leaves the records and the files as they were.
C20_WritesNeedToken ==
    [][(/\ last'.op # "register"
        /\ ~get_current_user(users, last'.token, now).ok)
       => /\ users' = users
          /\ testimonials' = testimonials
          /\ programs' = programs
          /\ files' = files]_vars

\* No user record is elevated and no token a client holds passes the admin gate.
NoElevated(db, held, t) ==
    /\ \A i \in 1..Len(db) : ~db[i].is_superuser
    /\ \A token \in held : ~get_admin_user(db, token, t).ok

\* C21: privilege-escalation boundary.  From a store with no elevated user, a
\* request made without an elevated user's token (and while there is no
\* elevated user there is no such token) never produces a user record with
\* is_superuser = true nor a token that passes the admin gate.
C21_NoPrivilegeEscalation ==
    [][NoElevated(users, tokens, now) => NoElevated(users', tokens', now')]_vars

\* C22: testimonial moderation.  A testimonial enters the table with status
\* PENDING; the status of a testimonial changes only in a step of
\* approve_testimonial (to APPROVED) or of reject_testimonial (to REJECTED), made
\* with the token of an elevated user; no step of create_testimonial or
\* update_testimonial changes the status of a testimonial.
C22_ModerationOnly ==
    [][\A id \in TestimonialIds :
           /\ (~HasTestimonial(testimonials, id) /\ HasTestimonial(testimonials', id))
              => Row(testimonials', id).status = "pending"
           /\ (/\ HasTestimonial(testimonials, id)
               /\ HasTestimonial(testimonials', id)
               /\ Row(testimonials', id).status # Row(testimonials, id).status)
              => /\ last'.op \in {"approve_testimonial", "reject_testimonial"}
                 /\ last'.op = "approve_testimonial"
                    => Row(testimonials', id).status = "approved"
                 /\ last'.op = "reject_testimonial"
                    => Row(testimonials', id).status = "rejected"
                 /\ ValidBearer(last'.token)
                 /\ Holder(last'.token).is_superuser]_vars

\* An ordinary user has updated the name and the content of a testimonial that
\* an elevated user had approved; the status is still APPROVED.
C22_Witness ==
    /\ last.op = "update_testimonial"
    /\ last.status = 200
    /\ ValidBearer(last.token)
    /\ ~Holder(last.token).is_superuser
    /\ HasTestimonial(testimonials, last.arg.id)
    /\ Row(testimonials, last.arg.id).name = "Bea"
    /\ Row(testimonials, last.arg.id).content = "great"
    /\ Row(testimonials, last.arg.id).status = "approved"

UpdateOps == {"update_program", "update_member", "update_event", "update_testimonial"}

\* The table an update operation writes.
TableOf(op) ==
    CASE op = "update_program" -> programs
      [] op = "update_member" -> members
      [] op = "update_event" -> events
      [] op = "update_testimonial" -> testimonials

\* The request bodies an update operation reads, as its schema parses them.
UpdatesOf(op) ==
    CASE op = "update_program" -> {ProgramUpdate(json) : json \in ProgramJsons}
      [] op = "update_member" -> {MemberUpdate(json) : json \in MemberJsons}
      [] op = "update_event" -> {EventUpdate(json) : json \in EventJsons}
      [] op = "update_testimonial" -> {TestimonialUpdate(json) : json \in TestimonialJsons}

\* What the handler of the operation makes of this request in this state.
Applied(op, token, id, update) ==
    CASE op = "update_program" ->
             LET r == update_program(users, programs, token, id, update, now, FALSE)
             IN  [table |-> r.programs, response |-> r.response]
      [] op = "update_member" ->
             LET r == update_member(users, members, token, id, update, now)
             IN  [table |-> r.members, response |-> r.response]
      [] op = "update_event" ->
             LET r == update_event(users, events, token, id, update, now)
             IN  [table |-> r.events, response |-> r.response]
      [] op = "update_testimonial" ->
             LET r == update_testimonial(users, testimonials, token, id, update, now)
             IN  [table |-> r.testimonials, response |-> r.response]

\* The row is the one the request addresses.
Addresses(op, row, id) ==
    IF op \in {"update_member", "update_event"}
    THEN IsIntegerText(id) /\ row.id = IntegerOf(id)
    ELSE row.id = id

\* A successful update step changed, in the addressed row, the fields its body
\* set to the values supplied and no other field outside `exempt`, and changed
\* no other row of any table.
PartialUpdate(exempt) ==
    (last'.op \in UpdateOps /\ last'.status = 200)
    => LET op == last'.op
           id == last'.arg.id
           old == TableOf(op)
           new == CASE op = "update_program" -> programs'
                    [] op = "update_member" -> members'
                    [] op = "update_event" -> events'
                    [] op = "update_testimonial" -> testimonials'
       IN  /\ Len(new) = Len(old)
           /\ \E update \in UpdatesOf(op) :
                  Applied(op, last'.token, id, update) = [table |-> new, response |-> last']
           /\ \A update \in UpdatesOf(op) :
                  Applied(op, last'.token, id, update) = [table |-> new, response |-> last']
                  => \A i \in 1..Len(old) :
                         IF Addresses(op, old[i], id)
                         THEN /\ DOMAIN new[i] = DOMAIN old[i]
                              /\ \A f \in DOMAIN old[i] \ exempt :
                                     new[i][f] = IF f \in update.fields_set
                                                 THEN update[f]
                                                 ELSE old[i][f]
                         ELSE new[i] = old[i]
           /\ op # "update_program" => programs' = programs
           /\ op # "update_member" => members' = members
           /\ op # "update_event" => events' = events
           /\ op # "update_testimonial" => testimonials' = testimonials
           /\ users' = users

\* C23 as stated: an update request changes exactly the fields present in the
\* request body to the supplied values and leaves every field not present in
\* the body, and every other record, unchanged.
C23_PartialUpdateStated == [][PartialUpdate({})]_vars

\* C23: an update request (update_program, update_member, update_event,
\* update_testimonial) sets the fields its schema declares that are present
\* in the request body to the supplied values and leaves every other field of
\* the record unchanged, except updated_at, which the store stamps when the
\* update changes the row; every other record is unchanged.
C23_PartialUpdate == [][PartialUpdate({"updated_at"})]_vars

\* A member's name was updated: the role the body did not set is as it was and
\* so is the other member.
C23_Witness ==
    /\ last.op = "update_member"
    /\ last.status = 200
    /\ last.arg.id = "1"
    /\ members[1].name = "Max"
    /\ members[1].role = "chair"
    /\ members[1].updated_at = Timestamp
    /\ members[2] = SeededMembers[2]


ProgramById == {"get_program", "update_program", "delete_program"}
MemberById == {"get_member", "update_member", "delete_member"}
EventById == {"get_event", "update_event", "delete_event"}
TestimonialById == {"get_testimonial", "update_testimonial", "delete_testimonial"}
ById == ProgramById \cup MemberById \cup EventById \cup TestimonialById

\* The id of the request matches a record of the table the operation queries.
Matches(op, id) ==
    CASE op \in ProgramById -> HasProgram(programs, id)
      [] op \in MemberById -> HasRow(members, id)
      [] op \in EventById -> HasRow(events, id)
      [] op \in TestimonialById -> HasTestimonial(testimonials, id)

\* C24: a get, update or delete addressed to an id that matches no record
\* (an id already deleted included) returns the not-found failure (404) and
\* leaves the store unchanged; in programs.py the 404 is not converted to a
\* 500.  Stated of the requests of a caller who passes every gate.
C24_NotFound ==
    [][(/\ last'.op \in ById
        /\ get_admin_user(users, last'.token, now).ok
        /\ ~Matches(last'.op, last'.arg.id))
       => /\ last'.status = 404
          /\ programs' = programs
          /\ members' = members
          /\ events' = events
          /\ testimonials' = testimonials
          /\ users' = users]_vars


\* C25: delete_member is a soft delete: after it succeeds the member record
\* still exists in the store with is_active = false (get_member still returns
\* it and the list with is_active=false includes it), no record is removed,
\* and repeating the delete succeeds again with the same resulting state.
C25_SoftDelete ==
    [][(last'.op = "delete_member" /\ last'.status = 200)
       => LET id == last'.arg.id
              token == last'.token
              listed == get_members(users', members', token, None, "false", now')
          IN  /\ Len(members') = Len(members)
              /\ HasRow(members', id)
              /\ get_member(users', members', token, id, now').status = 200
              /\ delete_member(users', members', token, id, now')
                     = [members |-> members', response |-> last']
              /\ "is_active" \in DOMAIN RowAt(members', id)
              /\ ~RowAt(members', id).is_active
              /\ listed.status = 200
              /\ \E i \in 1..Len(listed.body.records) :
                     listed.body.records[i].id = IntegerOf(id)]_vars


\* The flag of the row is persisted and is the negation of `was` when the row
\* had one before.
Flipped(old, new, flag) ==
    /\ flag \in DOMAIN new
    /\ flag \in DOMAIN old => new[flag] = ~old[flag]

\* C26: toggle is an involution.  toggle_event_status flips the persisted
\* is_active of the addressed event and toggle_feature_testimonial flips the
\* persisted is_featured of the addressed testimonial: a toggle by an elevated
\* user of a record that exists succeeds, the record then holds the flipped
\* flag, the message names the new state, a second toggle restores the record's
\* flag, and no other record changes.
C26_ToggleInvolution ==
    [][/\ (/\ last'.op = "toggle_event_status"
           /\ get_admin_user(users, last'.token, now).ok
           /\ HasRow(events, last'.arg.id))
          => LET id == last'.arg.id
                 old == RowAt(events, id)
                 new == RowAt(events', id)
                 again == toggle_event_status(users', events', last'.token, id, now')
             IN  /\ last'.status = 200
                 /\ HasRow(events', id)
                 /\ Flipped(old, new, "is_active")
                 /\ last'.body.message = IF new.is_active
                                         THEN "Event activated successfully"
                                         ELSE "Event deactivated successfully"
                 /\ again.response.status = 200
                 /\ Flipped(new, RowAt(again.events, id), "is_active")
                 /\ \A i \in 1..Len(events) :
                        events[i].id # IntegerOf(id) => events'[i] = events[i]
                 /\ testimonials' = testimonials
       /\ (/\ last'.op = "toggle_feature_testimonial"
           /\ get_admin_user(users, last'.token, now).ok
           /\ HasTestimonial(testimonials, last'.arg.id))
          => LET id == last'.arg.id
                 old == Row(testimonials, id)
                 new == Row(testimonials', id)
                 again == toggle_feature_testimonial(users', testimonials', last'.token,
                                                     id, now')
             IN  /\ last'.status = 200
                 /\ HasTestimonial(testimonials', id)
                 /\ Flipped(old, new, "is_featured")
                 /\ last'.body.message = IF new.is_featured
                                         THEN "Testimonial featured successfully"
                                         ELSE "Testimonial unfeatured successfully"
                 /\ again.response.status = 200
                 /\ Flipped(new, Row(again.testimonials, id), "is_featured")
                 /\ \A i \in 1..Len(testimonials) :
                        testimonials[i].id # id => testimonials'[i] = testimonials[i]
                 /\ events' = events]_vars


\* The table a toggle operation writes.
ToggledTable(op) == IF op = "toggle_event_status" THEN events ELSE testimonials

\* C27: concurrent read-modify-write requests on the same record behave as if
\* run one after the other.  Whenever two toggle requests on the same record
\* have both read it and neither has written, the two writes, in either
\* order, both succeed and leave the record's persisted flag at the value it
\* has now (no lost update).
C27_NoLostUpdate ==
    \A w1, w2 \in 1..MaxInFlight :
        (/\ w1 # w2
         /\ sessions[w1].state = "loaded"
         /\ sessions[w2].state = "loaded"
         /\ sessions[w1].op = sessions[w2].op
         /\ sessions[w1].id = sessions[w2].id)
        => LET op == sessions[w1].op
               flag == FlagOf(op)
               table == ToggledTable(op)
               first == toggle_write(table, sessions[w1])
               second == toggle_write(first.table, sessions[w2])
               before == Row(table, sessions[w1].row.id)
               after == Row(second.table, sessions[w1].row.id)
           IN  /\ first.response.status = 200
               /\ second.response.status = 200
               /\ flag \in DOMAIN before
               /\ flag \in DOMAIN after
               /\ after[flag] = before[flag]


\* The name has "/", "\" or ".." in it.
Traversing(filename) ==
    \E i \in 1..Len(filename) : filename[i] = "/" \/ filename[i] = "\\" \/ filename[i] = ".."

\* C28: delete_program_image removes at most one file, and only a regular file
\* located directly inside the image storage directory whose name starts with
\* "program_": a filename containing "/", "\" or "..", or not starting with
\* "program_", is rejected with 400, a missing file with 404, a non-file path
\* with 400, and in every rejected case no file is deleted.
C28_DeleteImageConfined ==
    [][last'.op = "delete_program_image"
       => LET filename == last'.arg.id
          IN  /\ files' \subseteq files
              /\ files \ files' \subseteq {filename} \cap files
              /\ files' # files
                 => /\ ~Traversing(filename)
                    /\ Head(filename) = "program_"
                    /\ last'.status = 200
              /\ (Traversing(filename) \/ Head(filename) # "program_")
                 => last'.status = 400
              /\ (/\ ~Traversing(filename)
                  /\ Head(filename) = "program_"
                  /\ filename \notin files \cup Directories)
                 => last'.status = 404
              /\ (/\ ~Traversing(filename)
                  /\ Head(filename) = "program_"
                  /\ filename \in Directories)
                 => last'.status = 400
              /\ last'.status # 200 => files' = files]_vars

\* A directory of the storage directory was asked for and refused, after a
\* file had been uploaded: the file is still there.
C28_Witness ==
    /\ last.op = "delete_program_image"
    /\ last.arg.id \in Directories
    /\ last.status = 400
    /\ last.detail = "Invalid file path"
    /\ files # {}


\* C29: POST /users, for a caller who passes the active-user gate: a request
\* with an email matching no existing user creates exactly one user record
\* with that email and a hashed password and returns it; a request with an
\* existing email is rejected with 400 and the store is unchanged.
C29_CreateNewUser ==
    [][(/\ last'.op = "create_new_user"
        /\ get_current_active_user(users, last'.token, now).ok)
       => IF get_user_by_email(users, last'.arg.email) # NoUser
          THEN /\ last'.status = 400
               /\ users' = users
          ELSE /\ Len(users') = Len(users) + 1
               /\ SubSeq(users', 1, Len(users)) = users
               /\ users'[Len(users')].email = last'.arg.email
               /\ users'[Len(users')].hashed_password # last'.arg.password
               /\ verify_password(last'.arg.password, users'[Len(users')].hashed_password)
               /\ last'.status = 200
               /\ Len(last'.body.users) = 1
               /\ last'.body.users[1].email = last'.arg.email]_vars


\* The session of a request in progress is not closed yet, a closed one was
\* closed once, none is left behind, and no two workers ever hold the same
\* session.
SessionSafety ==
    \A w \in 1..MaxInFlight :
        /\ sessions[w].closes <= 1
        /\ sessions[w].state \in {"idle", "open", "ended", "closed"}
        /\ sessions[w].state = "closed" => sessions[w].closes = 1
        /\ sessions[w].state \in {"open", "ended"} => sessions[w].closes = 0
        /\ \A v \in 1..MaxInFlight :
               (v # w /\ sessions[w].sid # 0) => sessions[v].sid # sessions[w].sid

\* C30: every database session opened for a request is eventually closed
\* exactly once when the request ends, whether the handler returns normally,
\* is rejected by the access gate, or raises; no session is shared between
\* two requests.
C30_SessionClosedOnce ==
    /\ []SessionSafety
    /\ \A w \in 1..MaxInFlight, sid \in 1..MaxSessions :
           (sessions[w].sid = sid /\ sessions[w].state = "open")
           ~> (/\ sessions[w].sid = sid
               /\ sessions[w].state = "closed"
               /\ sessions[w].closes = 1)

\* One worker's request was rejected by the gate and another's raised; both
\* sessions are closed, once each, and they are two sessions.
C30_Witness ==
    \E w, v \in 1..MaxInFlight :
        /\ sessions[w].state = "closed" /\ sessions[w].outcome = "rejected"
        /\ sessions[v].state = "closed" /\ sessions[v].outcome = "raised"
        /\ sessions[w].closes = 1 /\ sessions[v].closes = 1
        /\ sessions[w].sid # sessions[v].sid

====
